---- MODULE Spec2Model ----
(***************************************************************************)
(* Model of the label generator (src/features/labels.py), of the           *)
(* walk-forward trainer's window configuration (src/models/train_lgbm.py), *)
(* of the evaluation metrics (src/models/evaluate.py) and of the backtest  *)
(* (src/models/backtest.py) of CryptoPrism-News-Fetcher.                   *)
(*                                                                         *)
(* Representation                                                          *)
(*  - A Python value that may be None is a sequence of length <= 1:        *)
(*    None is <<>>, a present value x is <<x>>.                            *)
(*  - A float is the exact rational it approximates, a pair <<n, d>> in    *)
(*    lowest terms with d > 0.  The closes the model draws are integers    *)
(*    (a price in its smallest unit).                                      *)
(*  - round(r, 8) is an integer count of 1e-8 units.                       *)
(*  - statistics.stdev(xs) is represented by its square, the sample        *)
(*    variance, as an exact rational (the square root is injective on      *)
(*    the non-negative numbers, so two volatilities are equal exactly      *)
(*    when their representations are).                                     *)
(*  - A timestamp is an integer number of ticks, TicksPerDay to the day;   *)
(*    a date is a day number.                                              *)
(*  - A float that is nan is None.  A standard deviation is represented   *)
(*    by its square, and a ratio x / std (an information ratio, a Sharpe   *)
(*    ratio) by its signed square sign(x) * x^2 / std^2.                   *)
(***************************************************************************)
EXTENDS Integers, Sequences, FiniteSets, TLC

VARIABLES
    ohlcv,        \* the table "1K_coins_ohlcv": a set of bars [slug, timestamp, close]
    ML_LABELS,    \* the table "ML_LABELS": a sequence (heap) of label rows
    clock,        \* the wall clock, in ticks (datetime.now)
    call,         \* the last call of run: <<>> or <<[from_date, to_date]>>
    outcome,      \* how it ended: "none", "returned", "TypeError"
    label_rows,   \* the rows its compute_labels returned
    previous,     \* call, outcome and label_rows of the call before it
    splits,       \* the window configuration train reads (the dict SPLITS)
    mv_ml_feature_matrix,  \* the materialized view: a set of rows [timestamp, label_3d]
    train_runs,   \* calls of train so far
    train_call,   \* the last call of train: <<>> or <<[mode, loaded, fitted, outcome]>>
    artifacts,    \* the files under artifacts/: a set of [path, fitted_on]
    ML_MODEL_REGISTRY,     \* the table "ML_MODEL_REGISTRY": a sequence of rows
    ML_BACKTEST_RESULTS,   \* the table "ML_BACKTEST_RESULTS": a sequence of rows
    tx,           \* the transaction of each concurrent label run
    commits,      \* the concurrent label runs that have committed, in commit order
    eval_df,      \* the frame of scored rows under evaluation
    eval_call,    \* the last call of a metric: <<>> or <<[fn, args, result]>>
    etl_runs,     \* the table etl_runs: a sequence of rows, run_id the position
    etl_job_stats,  \* the table etl_job_stats: a set of rows, one per job_name
    tracked,      \* each process's place in `with track(job_name)` and its tracker
    etl_log,      \* the with statements that have ended: what the body did, what track raised
    sessions,     \* the transaction of each concurrent call of set_active_model
    activated     \* the calls of set_active_model that have ended, in the order they ended

label_vars == <<ohlcv, ML_LABELS, clock, call, outcome, label_rows, previous>>

train_vars == <<splits, mv_ml_feature_matrix, train_runs, train_call, artifacts,
                ML_MODEL_REGISTRY, ML_BACKTEST_RESULTS>>

race_vars == <<tx, commits>>

eval_vars == <<eval_df, eval_call>>

etl_vars == <<etl_runs, etl_job_stats, tracked, etl_log>>

session_vars == <<sessions, activated>>

vars == <<label_vars, train_vars, race_vars, eval_vars, etl_vars, session_vars>>

----------------------------------------------------------------------------
(* Bounds of the model *)

MaxDate == 4          \* the dense price series cover the days 0..MaxDate
TicksPerDay == 2      \* clock resolution
MaxRuns == 2          \* runs of the label job in one behaviour
LongBack == 5         \* the long price series start LongBack days before day 0
MaxTrains == 2        \* calls of train in one behaviour
IcDays == 3           \* days of a frame of ten-coin days
PnlDays == 6          \* days of a frame of small days
BacktestDays == 2     \* days of a view the backtest runs over
MaxTracked == 3       \* runs of tracked jobs in one behaviour
MaxActivations == 3   \* calls of set_active_model in one behaviour

----------------------------------------------------------------------------
(* Optional values and exact rationals *)

None == <<>>
Some(x) == <<x>>
IsNone(o) == Len(o) = 0
Val(o) == o[1]

Abs(x) == IF x < 0 THEN -x ELSE x

RECURSIVE GCD(_, _)
GCD(a, b) == IF b = 0 THEN a ELSE GCD(b, a % b)

LCM(a, b) == (a \div GCD(a, b)) * b

\* n/d in lowest terms, d > 0
Rat(n, d) ==
    LET g == GCD(Abs(n), Abs(d))
        s == IF d < 0 THEN -1 ELSE 1
    IN  <<s * (n \div g), s * (d \div g)>>

RatGT(p, q) == p[1] * q[2] > q[1] * p[2]
RatLT(p, q) == p[1] * q[2] < q[1] * p[2]
RatNeg(p) == <<-p[1], p[2]>>

\* round(x, ndigits) of a rational x: the count of 10^-ndigits units nearest to
\* x, an exact tie going to the even count.  Long division, one decimal digit
\* at a time.
RECURSIVE LongDiv(_, _, _, _)
LongDiv(acc, rem, d, k) ==
    IF k = 0 THEN <<acc, rem>>
    ELSE LongDiv(acc * 10 + ((rem * 10) \div d), (rem * 10) % d, d, k - 1)

round(x, ndigits) ==
    LET n   == Abs(x[1])
        d   == x[2]
        qr  == LongDiv(n \div d, n % d, d, ndigits)
        up  == 2 * qr[2] > d \/ (2 * qr[2] = d /\ qr[1] % 2 = 1)
        m   == IF up THEN qr[1] + 1 ELSE qr[1]
    IN  IF x[1] < 0 THEN -m ELSE m

RECURSIVE SetToSortedSeq(_)
SetToSortedSeq(S) ==
    IF S = {} THEN <<>>
    ELSE LET m == CHOOSE x \in S : \A y \in S : x <= y
         IN  <<m>> \o SetToSortedSeq(S \ {m})

Range(f) == {f[i] : i \in DOMAIN f}

\* the last n elements of a sequence: s[-n:]
LastN(s, n) == IF Len(s) <= n THEN s ELSE SubSeq(s, Len(s) - n + 1, Len(s))

----------------------------------------------------------------------------
(* labels.py *)

\* Classification thresholds (labels.py 35-40): 0.03, 0.05, 0.07, 0.10
THRESHOLDS ==
    [label_1d  |-> Rat(3, 100),
     label_3d  |-> Rat(5, 100),
     label_7d  |-> Rat(7, 100),
     label_14d |-> Rat(10, 100)]

\* classify with the boundary inclusive: >= and <= for > and <
classify_inclusive(ret, threshold) ==
    IF IsNone(ret) THEN None
    ELSE IF ~RatLT(Val(ret), threshold) THEN Some(1)
    ELSE IF ~RatGT(Val(ret), RatNeg(threshold)) THEN Some(-1)
    ELSE Some(0)

\* classify without its None branch: a missing return is class 0
classify_none_as_hold(ret, threshold) ==
    IF IsNone(ret) THEN Some(0)
    ELSE IF RatGT(Val(ret), threshold) THEN Some(1)
    ELSE IF RatLT(Val(ret), RatNeg(threshold)) THEN Some(-1)
    ELSE Some(0)

classify(ret, threshold) ==
    IF IsNone(ret) THEN None
    ELSE IF RatGT(Val(ret), threshold) THEN Some(1)
    ELSE IF RatLT(Val(ret), RatNeg(threshold)) THEN Some(-1)
    ELSE Some(0)

\* timestamp.date()
DateOf(ts) == ts \div TicksPerDay

\* datetime.combine(d, datetime.min.time()) and datetime.combine(d, datetime.max.time())
DayStart(d) == d * TicksPerDay
DayEnd(d) == d * TicksPerDay + (TicksPerDay - 1)

\* fetch_ohlcv_window: the bars with from_date - 32 days <= timestamp <=
\* end of (to_date + 18 days), ORDER BY slug, timestamp ASC.  Slugs are
\* ordered as the strings "a" < "b".
SlugRank(s) == IF s = "a" THEN 0 ELSE 1

RECURSIVE OrderBars(_)
OrderBars(B) ==
    IF B = {} THEN <<>>
    ELSE LET m == CHOOSE x \in B : \A y \in B :
                     \/ SlugRank(x.slug) < SlugRank(y.slug)
                     \/ /\ x.slug = y.slug
                        /\ x.timestamp <= y.timestamp
         IN  <<m>> \o OrderBars(B \ {m})

fetch_ohlcv_window(table, from_date, to_date) ==
    LET from_ts == DayStart(from_date - 32)
        to_ts   == DayEnd(to_date + 18)
    IN  OrderBars({b \in table : b.timestamp >= from_ts /\ b.timestamp <= to_ts})

\* `c and c != 0`
Truthy(c) == ~IsNone(c) /\ Val(c) # 0

\* by_slug: the slugs in the order of their first row
RECURSIVE SlugOrder(_, _)
SlugOrder(rows, seen) ==
    IF rows = <<>> THEN <<>>
    ELSE IF Head(rows).slug \in seen THEN SlugOrder(Tail(rows), seen)
    ELSE <<Head(rows).slug>> \o SlugOrder(Tail(rows), seen \cup {Head(rows).slug})

by_slug(rows, slug) == SelectSeq(rows, LAMBDA r : r.slug = slug)

\* date_to_close / date_to_ts: a later candle of the same date overwrites
LastOfDate(candles, d) ==
    CHOOSE i \in 1..Len(candles) :
        /\ DateOf(candles[i].timestamp) = d
        /\ \A j \in (i + 1)..Len(candles) : DateOf(candles[j].timestamp) # d

CandleDates(candles) == {DateOf(candles[i].timestamp) : i \in 1..Len(candles)}

date_to_close(candles) ==
    [d \in CandleDates(candles) |-> candles[LastOfDate(candles, d)].close]

date_to_ts(candles) ==
    [d \in CandleDates(candles) |-> candles[LastOfDate(candles, d)].timestamp]

\* dict.get(d)
Get(dtc, d) == IF d \in DOMAIN dtc THEN dtc[d] ELSE None

\* The loop of lines 122-126.  The subtraction of line 126 raises TypeError
\* when the previous close is truthy and the current close is None.
RaisesTypeError(dtc, sorted_dates) ==
    \E i \in 2..Len(sorted_dates) :
        /\ Truthy(dtc[sorted_dates[i - 1]])
        /\ IsNone(dtc[sorted_dates[i]])

daily_rets(dtc, sorted_dates) ==
    LET idx == {i \in 2..Len(sorted_dates) : Truthy(dtc[sorted_dates[i - 1]])}
    IN  [d \in {sorted_dates[i] : i \in idx} |->
            LET i == CHOOSE j \in idx : sorted_dates[j] = d
                prev == Val(dtc[sorted_dates[i - 1]])
            IN  Rat(Val(dtc[d]) - prev, prev)]

\* statistics.stdev(rets), by its square: (n * sum x^2 - (sum x)^2) / (n (n-1))
RECURSIVE SumSeq(_)
SumSeq(s) == IF s = <<>> THEN 0 ELSE Head(s) + SumSeq(Tail(s))

RECURSIVE LcmDen(_)
LcmDen(rets) == IF rets = <<>> THEN 1 ELSE LCM(Head(rets)[2], LcmDen(Tail(rets)))

stdev(rets) ==
    LET n  == Len(rets)
        L  == LcmDen(rets)
        a  == [i \in 1..n |-> rets[i][1] * (L \div rets[i][2])]
        s1 == SumSeq(a)
        s2 == SumSeq([i \in 1..n |-> a[i] * a[i]])
    IN  Rat(n * s2 - s1 * s1, n * (n - 1) * L * L)

\* the trailing window with the current date in it: x <= d for x < d
UpToAndIncluding(sorted_dates, d) == SelectSeq(sorted_dates, LAMBDA x : x <= d)

StrictlyBefore(sorted_dates, d) == SelectSeq(sorted_dates, LAMBDA x : x < d)

rolling_std(sorted_dates, rets_by_date, d, window) ==
    LET window_dates == LastN(StrictlyBefore(sorted_dates, d), window)
        with_ret     == SelectSeq(window_dates, LAMBDA x : x \in DOMAIN rets_by_date)
        rets         == [i \in 1..Len(with_ret) |-> rets_by_date[with_ret[i]]]
    IN  IF Len(rets) < 3 THEN None ELSE Some(stdev(rets))

\* fwd_ret: probe target_d + 0, + 1, + 2 in this order (range(3))
RECURSIVE Probe(_, _, _, _)
Probe(dtc, close_t, target_d, delta) ==
    IF delta >= 3 THEN None
    ELSE LET c == Get(dtc, target_d + delta)
         IN  IF Truthy(c) THEN Some(Rat(Val(c) - close_t, close_t))
             ELSE Probe(dtc, close_t, target_d, delta + 1)

\* fwd_ret as its comment has it, "+-1 day tolerance": probe -1, 0, +1
fwd_ret_around(dtc, d, close_t, horizon_days) ==
    Probe(dtc, close_t, d + horizon_days - 1, 0)

fwd_ret(dtc, d, close_t, horizon_days) == Probe(dtc, close_t, d + horizon_days, 0)

RoundOpt(r) == IF IsNone(r) THEN None ELSE Some(round(Val(r), 8))

\* the row appended at lines 161-176
LabelRow(slug, dtc, dts, sorted_dates, rets_by_date, d, now) ==
    LET close_t == Val(dtc[d])
        r1  == fwd_ret(dtc, d, close_t, 1)
        r3  == fwd_ret(dtc, d, close_t, 3)
        r7  == fwd_ret(dtc, d, close_t, 7)
        r14 == fwd_ret(dtc, d, close_t, 14)
    IN  [slug            |-> slug,
         timestamp       |-> dts[d],
         close_price     |-> close_t,
         forward_ret_1d  |-> RoundOpt(r1),
         forward_ret_3d  |-> RoundOpt(r3),
         forward_ret_7d  |-> RoundOpt(r7),
         forward_ret_14d |-> RoundOpt(r14),
         label_1d        |-> classify(r1,  THRESHOLDS.label_1d),
         label_3d        |-> classify(r3,  THRESHOLDS.label_3d),
         label_7d        |-> classify(r7,  THRESHOLDS.label_7d),
         label_14d       |-> classify(r14, THRESHOLDS.label_14d),
         volatility_7d   |-> rolling_std(sorted_dates, rets_by_date, d, 7),
         volatility_30d  |-> rolling_std(sorted_dates, rets_by_date, d, 30),
         created_at      |-> now]

\* the target dates of one asset: lines 136-142
IsTarget(dtc, d, target_from, target_to) ==
    /\ ~(d < target_from \/ d > target_to)
    /\ ~(IsNone(Get(dtc, d)) \/ Val(Get(dtc, d)) = 0)

SlugRaises(rows, slug) ==
    LET dtc == date_to_close(by_slug(rows, slug))
    IN  RaisesTypeError(dtc, SetToSortedSeq(DOMAIN dtc))

SlugLabels(rows, slug, target_from, target_to, now) ==
    LET candles      == by_slug(rows, slug)
        dtc          == date_to_close(candles)
        dts          == date_to_ts(candles)
        sorted_dates == SetToSortedSeq(DOMAIN dtc)
        rets_by_date == daily_rets(dtc, sorted_dates)
        targets      == SelectSeq(sorted_dates,
                            LAMBDA d : IsTarget(dtc, d, target_from, target_to))
    IN  [i \in 1..Len(targets) |->
            LabelRow(slug, dtc, dts, sorted_dates, rets_by_date, targets[i], now)]

RECURSIVE ConcatLabels(_, _, _, _, _)
ConcatLabels(rows, slugs, target_from, target_to, now) ==
    IF slugs = <<>> THEN <<>>
    ELSE SlugLabels(rows, Head(slugs), target_from, target_to, now)
            \o ConcatLabels(rows, Tail(slugs), target_from, target_to, now)

\* compute_labels with label_rows kept across calls instead of starting empty
compute_labels_accumulating(rows, from_date, to_date, now) ==
    LET slugs == SlugOrder(rows, {})
    IN  IF \E i \in 1..Len(slugs) : SlugRaises(rows, slugs[i])
        THEN [raised |-> TRUE, rows |-> <<>>]
        ELSE [raised |-> FALSE,
              rows   |-> label_rows
                            \o ConcatLabels(rows, slugs, from_date, to_date, now)]

\* compute_labels(rows, from_date, to_date): the rows it returns, or the
\* TypeError it raises
compute_labels(rows, from_date, to_date, now) ==
    LET slugs == SlugOrder(rows, {})
    IN  IF \E i \in 1..Len(slugs) : SlugRaises(rows, slugs[i])
        THEN [raised |-> TRUE, rows |-> <<>>]
        ELSE [raised |-> FALSE,
              rows   |-> ConcatLabels(rows, slugs, from_date, to_date, now)]

\* INSERT ... ON CONFLICT (slug, timestamp) DO UPDATE SET every other column
SameKey(x, r) == x.slug = r.slug /\ x.timestamp = r.timestamp

\* a plain INSERT, without ON CONFLICT
InsertOnly(store, r) == Append(store, r)

\* INSERT ... ON CONFLICT (slug, timestamp) DO NOTHING
KeepFirst(store, r) ==
    IF \E i \in 1..Len(store) : SameKey(store[i], r) THEN store ELSE Append(store, r)

Upsert1(store, r) ==
    IF \E i \in 1..Len(store) : SameKey(store[i], r)
    THEN [i \in 1..Len(store) |-> IF SameKey(store[i], r) THEN r ELSE store[i]]
    ELSE Append(store, r)

RECURSIVE upsert_labels(_, _)
upsert_labels(store, rows) ==
    IF rows = <<>> THEN store
    ELSE upsert_labels(Upsert1(store, Head(rows)), Tail(rows))

\* run(from_date, to_date): an argument that is not given is None
run_from(from_arg, today) ==
    IF IsNone(from_arg) THEN today - 1 ELSE Val(from_arg)

run_to(to_arg, from_date, today) ==
    IF IsNone(to_arg)
    THEN (IF today - 15 < from_date THEN from_date ELSE today - 15)
    ELSE Val(to_arg)

\* python labels.py --from-date .. --to-date ..: the value run returns is
\* dropped, so the interpreter exits with 0 when run returns and with 1 when
\* an exception leaves it
labels_main(outcome_of_run) == IF outcome_of_run = "returned" THEN 0 ELSE 1

----------------------------------------------------------------------------
(* The bounded inputs *)

\* a valid close, and what a day of a series may hold instead of one:
\* no bar (<<>>), a bar whose close is NULL, a bar whose close is 0
ValidCloses == {1, 2}
Defects == {<<>>, <<None>>, <<Some(0)>>}
BarOptions == Defects \cup {<<Some(c)>> : c \in ValidCloses}

Bar(slug, d, c) == [slug |-> slug, timestamp |-> DayEnd(d), close |-> c]

\* the bars of one asset from a choice f of BarOptions for the days in D
Series(slug, D, f) == {Bar(slug, d, f[d][1]) : d \in {x \in D : f[x] # <<>>}}

\* one asset with a bar with a valid close on every day 0..MaxDate, but for
\* at most one day that has no bar or an invalid close
DenseTables ==
    { Series("a", 0..MaxDate, f) :
        f \in {g \in [0..MaxDate -> BarOptions] :
                  \A d1, d2 \in 0..MaxDate :
                      (g[d1] \in Defects /\ g[d2] \in Defects) => d1 = d2} }

\* one asset with a valid bar on day 0 and any bars on the three days that
\* fwd_ret probes for one horizon
HORIZONS == {1, 3, 7, 14}

ProbeTables ==
    UNION { { {Bar("a", 0, Some(c0))} \cup Series("a", (h)..(h + 2), f) :
                f \in [(h)..(h + 2) -> BarOptions] } :
            <<c0, h>> \in ValidCloses \X HORIZONS }

\* one asset with two bars, h days apart, whose return is at, just inside or
\* just outside a threshold of THRESHOLDS, or rounds to one
ThresholdCloses ==
    {<<100, c>> : c \in {89, 90, 92, 93, 94, 95, 96, 97,
                         103, 104, 105, 106, 107, 108, 110, 111}}
        \cup {<<3000033, 3090034>>, <<3000033, 2910032>>}

ThresholdTables ==
    { {Bar("a", 0, Some(p[1])), Bar("a", h, Some(p[2]))} :
        <<p, h>> \in ThresholdCloses \X HORIZONS }

\* one asset with a valid bar on every day -LongBack..MaxDate, the close
\* being 1 from day 0 on: enough history for the 7-day and the 30-day
\* volatility windows to differ
LongTables ==
    { Series("a", (-LongBack)..MaxDate, f) :
        f \in {g \in [(-LongBack)..MaxDate -> {<<Some(c)>> : c \in ValidCloses}] :
                  \A d \in 0..MaxDate : g[d] = <<Some(1)>>} }

InputTables == DenseTables \cup ProbeTables \cup ThresholdTables \cup LongTables

\* one asset with a history that reaches back beyond the 32 days before the
\* target date: a valid bar on day 0 and, on each day of SparseDays, a valid
\* bar or none; and one with a bar on every day -34..0
SparseDays == {-34, -33, -31, -20, -10, -1}
SparseTables ==
    { {Bar("a", 0, Some(1))} \cup Series("a", SparseDays, f) :
        f \in [SparseDays -> {<<>>} \cup {<<Some(c)>> : c \in ValidCloses}] }
UnbrokenTable ==
    {Bar("a", d, Some(IF d % 3 = 0 THEN 2 ELSE 1)) : d \in (-34)..0}
FetchTables == SparseTables \cup {UnbrokenTable}
FetchArgDates == {None, Some(-1), Some(0)}

\* two assets with any valid bars on the days 0 and 1, for the runs that
\* follow one another
RunDays == 0..1
Slugs == {"a", "b"}

RunTables ==
    { UNION {Series(sl, RunDays, f[sl]) : sl \in Slugs} :
        f \in [Slugs -> [RunDays -> {<<>>} \cup {<<Some(c)>> : c \in ValidCloses}]] }

RunArgDates == {None} \cup {Some(d) : d \in RunDays}

ArgDates == {None} \cup {Some(d) : d \in 0..MaxDate}

ClockEnd == DayStart(MaxDate + 1) + MaxRuns

\* two assets with a bar of close 1 or no bar on the days 0 and 1, for the
\* runs that race
RaceTables ==
    { UNION {Series(sl, RunDays, f[sl]) : sl \in Slugs} :
        f \in [Slugs -> [RunDays -> {<<>>, <<Some(1)>>}]] }

\* one asset with bars on the days 0, 1 and 2 and a second bar, earlier in
\* the day, on one of them
DoubleBarTables ==
    { Series("a", 0..2, f) \cup {[slug |-> "a", timestamp |-> DayStart(d), close |-> c]} :
        f \in [0..2 -> {<<Some(c)>> : c \in ValidCloses}],
        d \in 0..2, c \in {Some(1), Some(2), None} }

\* the label runs that may execute at the same time
Writers == {"w1", "w2"}

----------------------------------------------------------------------------
(* The walk-forward trainer, src/models/train_lgbm.py and registry.py *)

\* A date string "YYYY-MM-DD" is the triple <<YYYY, MM, DD>>.  The database
\* reads "<date> 00:00:00+00" and "<date> 23:59:59+00" as timestamps; the
\* day number of a date is its proleptic Gregorian ordinal.
IsLeap(y) == (y % 4 = 0 /\ y % 100 # 0) \/ y % 400 = 0

DaysInMonth(y, mo) ==
    IF mo = 2 THEN (IF IsLeap(y) THEN 29 ELSE 28)
    ELSE IF mo \in {4, 6, 9, 11} THEN 30 ELSE 31

RECURSIVE DaysBeforeMonth(_, _)
DaysBeforeMonth(y, mo) ==
    IF mo = 1 THEN 0 ELSE DaysBeforeMonth(y, mo - 1) + DaysInMonth(y, mo - 1)

DaysBeforeYear(y) ==
    LET p == y - 1 IN p * 365 + (p \div 4) - (p \div 100) + (p \div 400)

DateOrdinal(dt) == DaysBeforeYear(dt[1]) + DaysBeforeMonth(dt[1], dt[2]) + dt[3]

\* a configuration whose validation window starts inside the training window
SPLITS_overlapping ==
    [ price_only |->
        [ train_from |-> <<2024, 1, 1>>,  train_to |-> <<2025, 12, 31>>,
          val_from   |-> <<2025, 12, 31>>, val_to   |-> <<2026, 2, 9>>,
          test_from  |-> <<2026, 2, 10>>, test_to  |-> <<2026, 2, 24>> ],
      news_augmented |->
        [ train_from |-> <<2025, 10, 21>>, train_to |-> <<2026, 1, 19>>,
          val_from   |-> <<2026, 1, 20>>, val_to   |-> <<2026, 2, 9>>,
          test_from  |-> <<2026, 2, 10>>, test_to  |-> <<2026, 2, 24>> ] ]

\* SPLITS, the walk-forward split dates
SPLITS ==
    [ price_only |->
        [ train_from |-> <<2024, 1, 1>>,  train_to |-> <<2025, 12, 31>>,
          val_from   |-> <<2026, 1, 20>>, val_to   |-> <<2026, 2, 9>>,
          test_from  |-> <<2026, 2, 10>>, test_to  |-> <<2026, 2, 24>> ],
      news_augmented |->
        [ train_from |-> <<2025, 10, 21>>, train_to |-> <<2026, 1, 19>>,
          val_from   |-> <<2026, 1, 20>>, val_to   |-> <<2026, 2, 9>>,
          test_from  |-> <<2026, 2, 10>>, test_to  |-> <<2026, 2, 24>> ] ]

Modes == {"price_only", "news_augmented"}

\* model_name = f"lgbm_{mode}_v1"
ModelName(mode) ==
    IF mode = "price_only" THEN "lgbm_price_only_v1" ELSE "lgbm_news_augmented_v1"

\* artifact_path = str(Path("artifacts") / f"{model_name}.pkl")
ArtifactPath(mode) ==
    IF mode = "price_only" THEN "artifacts/lgbm_price_only_v1.pkl"
    ELSE "artifacts/lgbm_news_augmented_v1.pkl"

\* load_feature_matrix: the rows of the view with
\* "<from_date> 00:00:00+00" <= timestamp <= "<to_date> 23:59:59+00" and a
\* label_3d that is not null
load_feature_matrix(view, from_date, to_date) ==
    LET from_ts == DayStart(DateOrdinal(from_date))
        to_ts   == DayEnd(DateOrdinal(to_date))
    IN  { r \in view : /\ r.timestamp >= from_ts
                       /\ r.timestamp <= to_ts
                       /\ ~IsNone(r.label_3d) }

\* the position of the row named model_name, 0 if there is none
RegistryIndex(registry, model_name) ==
    IF \E i \in DOMAIN registry : registry[i].model_name = model_name
    THEN CHOOSE i \in DOMAIN registry : registry[i].model_name = model_name
    ELSE 0

\* register_model: INSERT ... ON CONFLICT (model_name) DO UPDATE of the
\* metrics, artifact_path, notes and created_at, RETURNING model_id.  The
\* windows of a row that is already there are not updated.  Of the columns
\* the model keeps the name, the windows, val_ic_3d, the artifact path and
\* is_active, which a new row takes from the column default, taken to be
\* FALSE; the database numbers the rows, here in the order of their insertion.
register_model(registry, model_name, split, val_ic_3d, artifact_path) ==
    LET i == RegistryIndex(registry, model_name)
    IN  IF i # 0
        THEN [ table    |-> [registry EXCEPT ![i].val_ic_3d = val_ic_3d,
                                             ![i].artifact_path = artifact_path],
               model_id |-> registry[i].model_id ]
        ELSE [ table    |-> Append(registry,
                              [ model_id      |-> Len(registry) + 1,
                                model_name    |-> model_name,
                                train_from    |-> split.train_from,
                                train_to      |-> split.train_to,
                                val_from      |-> split.val_from,
                                val_to        |-> split.val_to,
                                val_ic_3d     |-> val_ic_3d,
                                artifact_path |-> artifact_path,
                                is_active     |-> FALSE ]),
               model_id |-> Len(registry) + 1 ]

\* set_active_model: UPDATE ... SET is_active = FALSE, then
\* UPDATE ... SET is_active = TRUE WHERE model_id = %s, in one transaction
set_active_model(registry, model_id) ==
    [ i \in DOMAIN registry |->
        [registry[i] EXCEPT !.is_active = (registry[i].model_id = model_id)] ]

\* get_active_model: SELECT * ... WHERE is_active = TRUE LIMIT 1
get_active_model(registry) ==
    IF \E i \in DOMAIN registry : registry[i].is_active
    THEN Some(registry[CHOOSE i \in DOMAIN registry : registry[i].is_active])
    ELSE None

\* save_backtest: a plain INSERT into "ML_BACKTEST_RESULTS"
save_backtest(table, model_id, backtest_from, backtest_to) ==
    Append(table, [ model_id      |-> model_id,
                    backtest_from |-> backtest_from,
                    backtest_to   |-> backtest_to ])

\* the file artifacts/<model_name>.pkl is opened "wb": created or overwritten
SaveArtifact(files, path, fitted_on) ==
    {f \in files : f.path # path} \cup {[path |-> path, fitted_on |-> fitted_on]}

\* how train ends on the three loaded frames.  An empty training frame is
\* logged and train returns; prepare_xy of an empty validation or test
\* frame raises KeyError, the frame having no column label_3d.
TrainOutcome(df_train, df_val, df_test) ==
    IF df_train = {} THEN "empty"
    ELSE IF df_val = {} \/ df_test = {} THEN "KeyError"
    ELSE "returned"

----------------------------------------------------------------------------
(* Bounded inputs of the trainer *)

\* a configuration whose validation window starts on the last training day,
\* and one whose test window starts on the last validation day
TrainValOverlap(split) == [split EXCEPT !.val_from = split.train_to]
ValTestOverlap(split) == [split EXCEPT !.test_from = split.val_to]

\* the configuration as shipped and the two overlapping ones
SplitConfigs ==
    { SPLITS,
      [mode \in Modes |-> TrainValOverlap(SPLITS[mode])],
      [mode \in Modes |-> ValTestOverlap(SPLITS[mode])] }

\* the validation IC a fit ends with: nan, 0.1 or 0.2
ValIcs == {None, Some(Rat(1, 10)), Some(Rat(2, 10))}

\* the days on which the view may hold a row: the last day of the price-only
\* training window and the days around the window borders
MatrixDates ==
    { <<2025, 12, 31>>, <<2026, 1, 19>>, <<2026, 1, 20>>,
      <<2026, 2, 9>>, <<2026, 2, 10>> }

MatrixRow(dt, label) == [timestamp |-> DayEnd(DateOrdinal(dt)), label_3d |-> label]

\* on each day no row, a row without label_3d, or a labelled row
MatrixTables ==
    { UNION { {MatrixRow(dt, l) : l \in f[dt]} : dt \in MatrixDates } :
        f \in [MatrixDates -> {{}, {None}, {Some(0)}}] }

----------------------------------------------------------------------------
(* The evaluator, src/models/evaluate.py *)

\* float arithmetic, exact
Plus(p, q) ==
    LET l == LCM(p[2], q[2])
    IN  Rat(p[1] * (l \div p[2]) + q[1] * (l \div q[2]), l)
Minus(p, q) == Plus(p, RatNeg(q))
\* the factors are cancelled crosswise before they are multiplied
Times(p, q) ==
    LET g == GCD(Abs(p[1]), q[2])
        h == GCD(Abs(q[1]), p[2])
    IN  Rat((p[1] \div g) * (q[1] \div h), (p[2] \div h) * (q[2] \div g))
Over(p, q) == IF q[1] < 0 THEN Times(p, <<-q[2], -q[1]>>) ELSE Times(p, <<q[2], q[1]>>)

\* np.array(xs): the elements laid out, each computed once
np_array(xs) == xs \o <<>>

RECURSIVE np_sum(_)
np_sum(xs) == IF xs = <<>> THEN <<0, 1>> ELSE Plus(Head(xs), np_sum(Tail(xs)))

RECURSIVE np_prod(_)
np_prod(xs) == IF xs = <<>> THEN <<1, 1>> ELSE Times(Head(xs), np_prod(Tail(xs)))

np_mean(xs) == Over(np_sum(xs), <<Len(xs), 1>>)

\* the sum of the squared deviations from the mean
SquaredDeviations(xs) ==
    LET m == np_mean(xs)
    IN  np_sum([i \in 1..Len(xs) |-> Times(Minus(xs[i], m), Minus(xs[i], m))])

\* np.std(xs), the population standard deviation, by its square
np_std(xs) == Over(SquaredDeviations(xs), <<Len(xs), 1>>)

\* a quotient m / sqrt(v) by its signed square, sign(m) * m^2 / v
OverRoot(m, v) == Over(<<(IF m[1] < 0 THEN -1 ELSE 1) * m[1] * m[1], m[2] * m[2]>>, v)

\* p < q, by the sign of the difference
Less(p, q) == Minus(p, q)[1] < 0

np_min(xs) == CHOOSE x \in Range(xs) : \A y \in Range(xs) : ~Less(y, x)
np_max(xs) == CHOOSE x \in Range(xs) : \A y \in Range(xs) : ~Less(x, y)

\* the fall from the peak in units of wealth, not as a fraction of the peak
drawdown_unscaled(cum, peak) == Minus(cum, peak)

\* (cum - peak) / peak, elementwise
drawdown(cum, peak) == Over(Minus(cum, peak), peak)

\* np.cumprod and np.maximum.accumulate
cumprod(xs) == np_array([i \in 1..Len(xs) |-> np_prod(SubSeq(xs, 1, i))])
maximum_accumulate(xs) == np_array([i \in 1..Len(xs) |-> np_max(SubSeq(xs, 1, i))])

\* the positions 1..n of a sequence, and the positions a test selects: xs[mask]
Positions(xs) == np_array([i \in 1..Len(xs) |-> i])
Take(xs, idx) == np_array([k \in 1..Len(idx) |-> xs[idx[k]]])

\* np.argsort(xs): the positions in ascending order of value, equal values in
\* the order they stand in (the insertion sort numpy runs on short arrays)
argsort(xs) ==
    LET Before(j, i) == RatLT(xs[j], xs[i]) \/ (xs[j] = xs[i] /\ j < i)
        place == np_array([i \in 1..Len(xs) |->
                              1 + Cardinality({j \in 1..Len(xs) : Before(j, i)})])
    IN  np_array([k \in 1..Len(xs) |-> CHOOSE i \in 1..Len(xs) : place[i] = k])

\* twice the average rank of xs[i] among xs (ranks 1..n, ties share the mean)
Rank2(xs, i) ==
    2 * Cardinality({j \in 1..Len(xs) : RatLT(xs[j], xs[i])})
      + Cardinality({j \in 1..Len(xs) : xs[j] = xs[i]}) + 1

\* the square root of a perfect square
Root(s) == CHOOSE r \in 0..s : r * r = s

\* scipy.stats.spearmanr(xs, ys): Pearson's correlation of the average ranks,
\* nan (None) when either input is constant
spearmanr(xs, ys) ==
    LET n   == Len(xs)
        rx  == np_array([i \in 1..n |-> Rank2(xs, i)])
        ry  == np_array([i \in 1..n |-> Rank2(ys, i)])
        sx  == SumSeq(rx)
        sy  == SumSeq(ry)
        sxx == n * SumSeq([i \in 1..n |-> rx[i] * rx[i]]) - sx * sx
        syy == n * SumSeq([i \in 1..n |-> ry[i] * ry[i]]) - sy * sy
        sxy == n * SumSeq([i \in 1..n |-> rx[i] * ry[i]]) - sx * sy
    IN  IF sxx = 0 \/ syy = 0 THEN None
        ELSE IF sxx = syy THEN Some(Rat(sxy, sxx))
        ELSE Some(Rat(sxy, Root(sxx * syy)))

\* a rounded float as the rational it is
Rounded(x, ndigits) ==
    Rat(round(x, ndigits), CASE ndigits = 2 -> 100 [] ndigits = 4 -> 10000
                                [] ndigits = 6 -> 1000000)

\* signal and forward_return are arrays of floats, nan being None
information_coefficient(signal, forward_return) ==
    LET mask == SelectSeq(Positions(signal),
                    LAMBDA i : ~(IsNone(signal[i]) \/ IsNone(forward_return[i])))
    IN  IF Len(mask) < 10 THEN None
        ELSE LET ic == spearmanr(np_array([k \in 1..Len(mask) |-> Val(signal[mask[k]])]),
                                 np_array([k \in 1..Len(mask) |-> Val(forward_return[mask[k]])]))
             IN  IF IsNone(ic) THEN None ELSE Some(Rounded(Val(ic), 6))

\* rolling_ic with every skipped window counted as an IC of zero
rolling_ic_zero_filled(signal, forward_return, dates, window_days) ==
    LET unique_dates == SetToSortedSeq(Range(dates))
        pass(k) ==
            LET i == window_days + k - 1
                window_dates == {unique_dates[j] : j \in (i - window_days + 1)..i}
                mask == SelectSeq(Positions(dates), LAMBDA p : dates[p] \in window_dates)
                ic == information_coefficient(Take(signal, mask), Take(forward_return, mask))
            IN  IF IsNone(ic) THEN <<0, 1>> ELSE Val(ic)
        ic_series == np_array([k \in 1..(Len(unique_dates) - window_days) |-> pass(k)])
        mean == np_mean(ic_series)
        std  == np_std(ic_series)
    IN  IF ic_series = <<>>
        THEN [ic_mean |-> None, ic_std |-> None, icir |-> None]
        ELSE [ic_mean |-> Some(Rounded(mean, 6)),
              ic_std  |-> Some(std),
              icir    |-> IF std[1] > 0 THEN Some(OverRoot(mean, std)) ELSE None]

\* ic_std is np_std's square and icir the signed square of mean / std
rolling_ic(signal, forward_return, dates, window_days) ==
    LET unique_dates == SetToSortedSeq(Range(dates))
        \* the pass of the loop with i = window_days + k - 1
        pass(k) ==
            LET i == window_days + k - 1
                window_dates == {unique_dates[j] : j \in (i - window_days + 1)..i}
                mask == SelectSeq(Positions(dates), LAMBDA p : dates[p] \in window_dates)
            IN  IF Len(mask) < 10 THEN None
                ELSE information_coefficient(Take(signal, mask), Take(forward_return, mask))
        appended  == SelectSeq([k \in 1..(Len(unique_dates) - window_days) |-> pass(k)],
                               LAMBDA ic : ~IsNone(ic))
        ic_series == np_array([k \in 1..Len(appended) |-> Val(appended[k])])
        mean == np_mean(ic_series)
        std  == np_std(ic_series)
    IN  IF ic_series = <<>>
        THEN [ic_mean |-> None, ic_std |-> None, icir |-> None]
        ELSE [ic_mean |-> Some(Rounded(mean, 6)),
              ic_std  |-> Some(std),
              icir    |-> IF std[1] > 0 THEN Some(OverRoot(mean, std)) ELSE None]

\* sharpe is the signed square of mean / std * sqrt(252)
portfolio_simulation(signal, forward_return, dates, top_n, hold_days) ==
    LET unique_dates == SetToSortedSeq(Range(dates))
        \* the pass of the loop for date d: the day's pnl, None when it continues
        pass(d) ==
            LET mask  == SelectSeq(Positions(dates), LAMBDA i : dates[i] = d)
                valid == SelectSeq(mask, LAMBDA i : ~IsNone(forward_return[i]))
                top_idx == LastN(argsort(np_array([k \in 1..Len(valid) |->
                                                      Val(signal[valid[k]])])), top_n)
            IN  IF Len(mask) < top_n \/ Len(valid) < top_n THEN None
                ELSE Some(np_mean([k \in 1..Len(top_idx) |->
                                      Val(forward_return[valid[top_idx[k]]])]))
        appended  == SelectSeq([k \in 1..Len(unique_dates) |-> pass(unique_dates[k])],
                               LAMBDA pnl : ~IsNone(pnl))
        daily_pnl == np_array([k \in 1..Len(appended) |-> Val(appended[k])])
        mean_ret  == np_mean(daily_pnl)
        std_ret   == np_std(daily_pnl)
        cum   == cumprod([k \in 1..Len(daily_pnl) |-> Plus(<<1, 1>>, daily_pnl[k])])
        peak  == maximum_accumulate(cum)
        dd    == np_array([k \in 1..Len(cum) |-> drawdown(cum[k], peak[k])])
        wins  == Cardinality({k \in 1..Len(daily_pnl) : daily_pnl[k][1] > 0})
    IN  IF Len(daily_pnl) < 5
        THEN [sharpe |-> None, max_drawdown |-> None, total_return |-> None,
              win_rate |-> None, total_trades |-> 0, avg_holding_days |-> hold_days]
        ELSE [sharpe |-> IF std_ret[1] > 0
                         THEN Some(Times(OverRoot(mean_ret, std_ret), <<252, 1>>))
                         ELSE None,
              max_drawdown |-> IF \E k \in 1..Len(peak) : peak[k][1] = 0 THEN None
                               ELSE Some(Rounded(np_min(dd), 4)),
              total_return |-> Some(Rounded(Minus(cum[Len(cum)], <<1, 1>>), 4)),
              win_rate     |-> Some(Rounded(Rat(wins, Len(daily_pnl)), 4)),
              total_trades |-> Len(daily_pnl) * top_n,
              avg_holding_days |-> hold_days]

----------------------------------------------------------------------------
(* The metrics of the backtest, src/models/backtest.py.  A DataFrame is the
   sequence of its rows, a row a record of its columns; a Series is a
   sequence of [index, value]. *)

\* df.groupby("timestamp"): the groups in ascending order of their key
groupby_timestamp(df) ==
    LET keys == SetToSortedSeq({df[i].timestamp : i \in 1..Len(df)})
    IN  np_array([k \in 1..Len(keys) |->
            [ts |-> keys[k], g |-> SelectSeq(df, LAMBDA r : r.timestamp = keys[k])]])

\* Series.dropna() and Series.mean(), which skips nan
dropna(values) ==
    LET kept == SelectSeq(values, LAMBDA v : ~IsNone(v))
    IN  np_array([k \in 1..Len(kept) |-> Val(kept[k])])
mean_skipna(values) ==
    IF dropna(values) = <<>> THEN None ELSE Some(np_mean(dropna(values)))

\* Series.std(), the sample standard deviation, by its square; nan under 2 values
std_sample(xs) ==
    IF Len(xs) < 2 THEN None ELSE Some(Over(SquaredDeviations(xs), <<Len(xs) - 1, 1>>))

\* g.sort_values("signal_score", ascending=False), rows of equal score in the
\* order they stand in; g.nlargest(top_n, "signal_score") is its head
sort_descending(g) ==
    Take(g, argsort(np_array([i \in 1..Len(g) |-> RatNeg(g[i].signal_score)])))
head(g, n) == IF Len(g) <= n THEN g ELSE SubSeq(g, 1, n)
nlargest(g, top_n) == head(sort_descending(g), top_n)
Column(g, col) == np_array([i \in 1..Len(g) |-> g[i][col]])

\* the ic is spearmanr's own value, None when it is nan
compute_daily_ic(df, signal_col, return_col) ==
    LET groups == groupby_timestamp(df)
        pass(ts, g) ==
            LET mask == SelectSeq(g, LAMBDA r : ~IsNone(r[return_col]))
            IN  IF Len(g) < 5 \/ Len(mask) < 5 THEN <<>>
                ELSE <<[index |-> ts,
                        value |-> spearmanr(Column(mask, signal_col),
                                            [i \in 1..Len(mask) |-> Val(mask[i][return_col])])]>>
        RECURSIVE ics(_)
        ics(k) == IF k > Len(groups) THEN <<>>
                  ELSE pass(groups[k].ts, groups[k].g) \o ics(k + 1)
    IN  ics(1)

long_only_portfolio(df, top_n, return_col) ==
    LET groups == groupby_timestamp(df)
    IN  np_array([k \in 1..Len(groups) |->
            [index |-> groups[k].ts,
             value |-> mean_skipna(Column(nlargest(groups[k].g, top_n), return_col))]])

\* the signed square of mean / std * sqrt(252), None for nan
sharpe(returns) ==
    LET r == dropna(Column(returns, "value"))
    IN  IF Len(r) < 2 \/ Val(std_sample(r))[1] = 0 THEN None
        ELSE Some(Times(OverRoot(np_mean(r), Val(std_sample(r))), <<252, 1>>))

\* a peak of 0 gives 0/0, a nan that min() skips
max_drawdown(returns) ==
    LET filled == [k \in 1..Len(returns) |->
                      IF IsNone(returns[k].value) THEN <<0, 1>> ELSE Val(returns[k].value)]
        cum  == cumprod([k \in 1..Len(filled) |-> Plus(<<1, 1>>, filled[k])])
        peak == maximum_accumulate(cum)
        dd   == [k \in 1..Len(cum) |->
                    IF peak[k][1] = 0 THEN None
                    ELSE Some(drawdown(cum[k], peak[k]))]
    IN  IF dropna(dd) = <<>> THEN None ELSE Some(np_min(dropna(dd)))

tail(g, n) == LastN(g, n)

hit_rate(df, top_n, return_col) ==
    LET groups == groupby_timestamp(df)
        \* the pass of the loop for one group: <<>> when it is not counted,
        \* else whether the top cohort won
        pass(g) ==
            LET g_sorted == sort_descending(g)
                top_ret == mean_skipna(Column(head(g_sorted, top_n), return_col))
                bot_ret == mean_skipna(Column(tail(g_sorted, top_n), return_col))
            IN  IF Len(g) < top_n * 2 THEN <<>>
                ELSE IF IsNone(top_ret) \/ IsNone(bot_ret) THEN <<>>
                ELSE <<Less(Val(bot_ret), Val(top_ret))>>
        RECURSIVE counted(_)
        counted(k) == IF k > Len(groups) THEN <<>>
                      ELSE pass(groups[k].g) \o counted(k + 1)
        total == Len(counted(1))
        wins  == Len(SelectSeq(counted(1), LAMBDA won : won))
    IN  IF total > 0 THEN Some(Rounded(Rat(wins, total), 4)) ELSE None

----------------------------------------------------------------------------
(* Bounded inputs of the evaluator: frames of scored rows
   [timestamp, slug, signal_score, forward_ret_1d, forward_ret_3d], ordered by
   timestamp and slug as load_feature_matrix orders them.  signal_score is
   P(buy) - P(sell) of the row and never nan; forward_ret_3d is never null in
   the view's rows with a label_3d; forward_ret_1d may be null. *)

Coins == <<"c0", "c1", "c2", "c3", "c4", "c5", "c6", "c7", "c8", "c9">>

\* the rows of one day: the i-th coin, its score and its returns in sixteenths
DayRows(d, block) ==
    [i \in 1..Len(block.score) |->
        [timestamp      |-> DayEnd(d),
         slug           |-> Coins[i],
         signal_score   |-> Rat(block.score[i], 16),
         forward_ret_1d |-> IF block.ret_1d[i] = None THEN None
                            ELSE Some(Rat(Val(block.ret_1d[i]), 16)),
         forward_ret_3d |-> Some(Rat(block.ret_3d[i], 16))]]

Ascending   == <<1, 2, 3, 4, 5, 6, 7, 8, 9, 10>>
Descending  == <<10, 9, 8, 7, 6, 5, 4, 3, 2, 1>>
Shuffled    == <<1, 5, 3, 2, 7, 8, 9, 6, 10, 4>>
Scattered   == <<5, 9, 10, 8, 3, 4, 7, 2, 6, 1>>
Swapped     == <<2, 1, 3, 4, 5, 6, 7, 8, 9, 10>>
Present(s)  == [i \in 1..Len(s) |-> Some(s[i])]

\* days of ten coins, of ten with one unpriced or all flat, and of five; the
\* rank correlation of the first nine of Swapped with those of Ascending is
\* 59/60
IcBlocks ==
    { [score |-> Ascending, ret_1d |-> Present(Ascending),  ret_3d |-> Descending],
      [score |-> Ascending, ret_1d |-> Present(Shuffled),   ret_3d |-> Scattered],
      [score |-> Ascending, ret_1d |-> [Present(Swapped) EXCEPT ![10] = None],
                            ret_3d |-> Ascending],
      [score |-> Ascending, ret_1d |-> Present([i \in 1..10 |-> 7]), ret_3d |-> Ascending],
      [score |-> SubSeq(Ascending, 1, 5), ret_1d |-> Present(SubSeq(Ascending, 1, 5)),
                            ret_3d |-> SubSeq(Descending, 1, 5)] }

\* days of two or four coins, won or lost by the best-scored, with null returns
PnlBlocks ==
    { [score |-> <<2, 1>>, ret_1d |-> <<Some(8), Some(-8)>>, ret_3d |-> <<-4, -8>>],
      [score |-> <<2, 1>>, ret_1d |-> <<None, Some(8)>>,      ret_3d |-> <<-8, 8>>],
      [score |-> <<4, 3, 2, 1>>, ret_1d |-> <<Some(8), None, Some(0), Some(-8)>>,
                                 ret_3d |-> <<8, 0, 0, -8>>] }

RECURSIVE Concat(_)
Concat(ss) == IF ss = <<>> THEN <<>> ELSE Head(ss) \o Concat(Tail(ss))

\* one block for each of the days 0 .. days - 1
Frames(days, blocks) ==
    {Concat([k \in 1..days |-> DayRows(k - 1, f[k - 1])]) : f \in [0..(days - 1) -> blocks]}

\* days of two coins with the same score and different returns, or with
\* different scores
TieBlocks ==
    { [score |-> <<1, 1>>, ret_1d |-> <<Some(8), Some(-8)>>, ret_3d |-> <<-4, 8>>],
      [score |-> <<2, 1>>, ret_1d |-> <<Some(8), Some(-8)>>, ret_3d |-> <<-4, -8>>] }

EvalFrames ==
    Frames(IcDays, IcBlocks) \cup Frames(PnlDays, PnlBlocks) \cup Frames(PnlDays, TieBlocks)
ReturnCols == {"forward_ret_1d", "forward_ret_3d"}
TopNs == {1, 2}
\* windows of one date, and of as many dates as the frame has
WindowDays(frame) ==
    {1, Cardinality({DateOf(frame[i].timestamp) : i \in 1..Len(frame)})}

\* the arrays full_eval is handed, cut from a frame
SignalOf(frame)  == np_array([i \in 1..Len(frame) |-> Some(frame[i].signal_score)])
DatesOf(frame)   == np_array([i \in 1..Len(frame) |-> DateOf(frame[i].timestamp)])
OnDate(frame, d) == SelectSeq(frame, LAMBDA r : DateOf(r.timestamp) = d)

----------------------------------------------------------------------------
(* The backtest itself, run of src/models/backtest.py.  A row of the view
   carries, for its features, the signal_score the stored model gives them. *)

Horizons == {1, 3}

\* get_model_info: the registry's rows with this model_id
get_model_info(registry, model_id) == SelectSeq(registry, LAMBDA m : m.model_id = model_id)

\* ORDER BY timestamp ASC, slug ASC
RECURSIVE OrderRows(_)
OrderRows(rows) ==
    IF rows = {} THEN <<>>
    ELSE LET rank(r) == CHOOSE i \in 1..Len(Coins) : Coins[i] = r.slug
             first == CHOOSE r \in rows : \A q \in rows :
                         \/ r.timestamp < q.timestamp
                         \/ (r.timestamp = q.timestamp /\ rank(r) <= rank(q))
         IN  <<first>> \o OrderRows(rows \ {first})

\* load_feature_matrix of backtest.py: the labelled rows of the view from
\* "<from_date> 00:00:00+00" to "<to_date> 23:59:59+00"
backtest_load_feature_matrix(view, from_date, to_date) ==
    OrderRows({r \in view : /\ r.timestamp >= DayStart(from_date)
                            /\ r.timestamp <= DayEnd(to_date)
                            /\ ~IsNone(r.label_3d)})

\* btc_benchmark: forward_ret_1d of 'bitcoin' by date, a later row of a date
\* replacing an earlier one
btc_benchmark(labels, from_date, to_date) ==
    LET rows == SelectSeq(labels, LAMBDA r :
                    /\ r.slug = "bitcoin"
                    /\ r.timestamp >= DayStart(from_date)
                    /\ r.timestamp <= DayEnd(to_date))
        days == SetToSortedSeq({DateOf(rows[i].timestamp) : i \in 1..Len(rows)})
        last(d) == rows[CHOOSE i \in 1..Len(rows) :
                            /\ DateOf(rows[i].timestamp) = d
                            /\ \A j \in (i + 1)..Len(rows) : DateOf(rows[j].timestamp) # d]
    IN  np_array([k \in 1..Len(days) |->
            [index |-> days[k],
             value |-> IF IsNone(last(days[k]).forward_ret_1d) THEN None
                       ELSE Some(Rat(Val(last(days[k]).forward_ret_1d), 100000000))]])

\* round(std, 4) > 0 of a std given by its square v = n/d: std >= 0.00005,
\* that is d / n <= 400000000
RoundsPositive(v) ==
    /\ v[1] > 0
    /\ \/ v[2] \div v[1] < 400000000
       \/ (v[2] \div v[1] = 400000000 /\ v[2] % v[1] = 0)

\* The record run saves, nan and None both None.  ic_3d_std is the sample
\* variance of the daily ICs (0 when the std rounds to 0), icir the signed
\* square of ic_mean over the std before its rounding, sharpe the signed
\* square of the ratio before its rounding.
backtest_metrics(df, labels, model_id, top_n, horizon, from_date, to_date) ==
    LET ret_col   == CASE horizon = 1 -> "forward_ret_1d"
                       [] horizon = 7 -> "forward_ret_7d"
                       [] OTHER       -> "forward_ret_3d"
        ic_series == compute_daily_ic(df, "signal_score", ret_col)
        ics       == dropna(Column(ic_series, "value"))
        ic_mean   == IF ics = <<>> THEN None ELSE Some(Rounded(np_mean(ics), 4))
        variance  == std_sample(ics)
        ic_std    == IF IsNone(variance) THEN None
                     ELSE IF RoundsPositive(Val(variance)) THEN variance
                     ELSE Some(<<0, 1>>)
        icir      == IF ~IsNone(ic_std) /\ Val(ic_std)[1] > 0
                     THEN Some(OverRoot(Val(ic_mean), Val(ic_std))) ELSE None
        portfolio_rets   == long_only_portfolio(df, top_n, ret_col)
        sharpe_portfolio == sharpe(portfolio_rets)
        mdd == max_drawdown(portfolio_rets)
        hr  == hit_rate(df, top_n, ret_col)
        btc_sharpe == sharpe(btc_benchmark(labels, from_date, to_date))
        positive   == SelectSeq(ics, LAMBDA ic : ic[1] > 0)
        groups     == groupby_timestamp(df)
    IN  [model_id      |-> model_id,
         from_date     |-> from_date,
         to_date       |-> to_date,
         universe      |-> [top |-> top_n, h |-> horizon],
         ic_3d         |-> IF horizon = 3 THEN ic_mean ELSE None,
         ic_3d_mean    |-> ic_mean,
         ic_3d_std     |-> ic_std,
         icir          |-> icir,
         sharpe        |-> sharpe_portfolio,
         max_drawdown  |-> IF IsNone(mdd) THEN None
                           ELSE Some(Rounded(Times(Val(mdd), <<100, 1>>), 2)),
         win_rate      |-> hr,
         accuracy      |-> None,
         precision_buy |-> None,
         recall_buy    |-> None,
         f1_buy        |-> None,
         avg_holding_days |-> horizon,
         notes |-> [top_n |-> top_n, horizon |-> horizon, btc_sharpe |-> btc_sharpe,
                    ic_positive_pct |-> IF ic_series = <<>> THEN None
                        ELSE Some(Rounded(Rat(Len(positive), Len(ic_series)), 4)),
                    n_days |-> Len(ics),
                    n_coins_avg |-> Len(df) \div Len(groups)]]

\* run(model_id, top_n, horizon, from_date, to_date): how it ends, the frame
\* it scored and the record it saved.  Without a from_date the window is the
\* view's MIN and MAX date (to_date is replaced too); on an empty view these
\* are NULL, and a to_date may be missing: the string 'None ...' is then no
\* timestamp for the database.
backtest_run(registry, files, view, labels, model_id, top_n, horizon, from_arg, to_arg) ==
    LET info == get_model_info(registry, model_id)
        days == {DateOf(r.timestamp) : r \in view}
        from_date == IF IsNone(from_arg) THEN CHOOSE d \in days : \A e \in days : d <= e
                     ELSE Val(from_arg)
        to_date   == IF IsNone(from_arg) THEN CHOOSE d \in days : \A e \in days : d >= e
                     ELSE Val(to_arg)
        df == backtest_load_feature_matrix(view, from_date, to_date)
    IN  IF info = <<>>
        THEN [outcome |-> "ValueError", df |-> <<>>, saved |-> <<>>]
        ELSE IF ~\E f \in files : f.path = info[1].artifact_path
        THEN [outcome |-> "FileNotFoundError", df |-> <<>>, saved |-> <<>>]
        ELSE IF (IsNone(from_arg) /\ days = {}) \/ (~IsNone(from_arg) /\ IsNone(to_arg))
        THEN [outcome |-> "DataError", df |-> <<>>, saved |-> <<>>]
        ELSE IF df = <<>>
        THEN [outcome |-> "no data", df |-> <<>>, saved |-> <<>>]
        ELSE [outcome |-> "saved", df |-> df,
              saved |-> <<backtest_metrics(df, labels, model_id, top_n, horizon,
                                           from_date, to_date)>>]

\* python backtest.py --model-id ..: run returns None both after saving and
\* after "No data loaded", and the interpreter exits with 0; with 1 when an
\* exception leaves run
backtest_main(outcome_of_run) ==
    IF outcome_of_run \in {"saved", "no data"} THEN 0 ELSE 1

\* the view of a frame: its rows, each with a label_3d
ViewOf(frame) == {[slug |-> r.slug, timestamp |-> r.timestamp,
                   signal_score |-> r.signal_score,
                   forward_ret_1d |-> r.forward_ret_1d,
                   forward_ret_3d |-> r.forward_ret_3d,
                   label_3d |-> Some(0)] : r \in Range(frame)}
\* the views: empty, or BacktestDays days of any kind
BacktestViews ==
    {ViewOf(frame) : frame \in Frames(BacktestDays, IcBlocks \cup PnlBlocks)} \cup {{}}
BacktestDates == {None, Some(0), Some(1)}
ModelIds == {1, 2}

----------------------------------------------------------------------------
(* The job tracker, src/inference/etl_tracker.py.  A connection is the
   committed tables and the tables as its open transaction sees them; the
   columns that hold times are left out. *)

Connect(runs, stats) ==
    [committed |-> [etl_runs |-> runs, etl_job_stats |-> stats],
     pending   |-> [etl_runs |-> runs, etl_job_stats |-> stats]]
conn_commit(conn) == [conn EXCEPT !.committed = conn.pending]
\* conn.close(): an open transaction is rolled back
conn_close(conn) == conn.committed

\* INSERT INTO etl_runs ... 'running' RETURNING run_id, committed
_start_run(conn, job_name) ==
    LET run_id == Len(conn.pending.etl_runs) + 1
        row == [run_id |-> run_id, job_name |-> job_name, status |-> "running",
                rows_processed |-> None, error_message |-> None]
    IN  [conn   |-> conn_commit([conn EXCEPT !.pending.etl_runs = Append(@, row)]),
         run_id |-> run_id]

\* the names _end_run can read: its parameters, its locals and the names of
\* the module
EndRunNames ==
    {"conn", "run_id", "status", "rows", "error", "start_time", "end_time",
     "duration_minutes", "sql", "stats_sql", "success_inc", "fail_inc", "cur",
     "os", "time", "logging", "traceback", "contextmanager", "datetime", "timezone",
     "psycopg2", "load_dotenv", "log", "get_db_conn", "_start_run", "_end_run", "track"}

\* INSERT INTO etl_job_stats ... ON CONFLICT (job_name) DO UPDATE
UpsertJobStats(stats, job_name, status, rows) ==
    LET success_inc == IF status = "success" THEN 1 ELSE 0
        fail_inc    == IF status = "failed" THEN 1 ELSE 0
    IN  IF \E s \in stats : s.job_name = job_name
        THEN {IF s.job_name # job_name THEN s
              ELSE [s EXCEPT !.total_runs = @ + 1,
                             !.successful_runs = @ + success_inc,
                             !.failed_runs = @ + fail_inc,
                             !.last_run_status = status,
                             !.total_rows_processed = @ + rows] : s \in stats}
        ELSE stats \cup {[job_name |-> job_name, total_runs |-> 1,
                          successful_runs |-> success_inc, failed_runs |-> fail_inc,
                          last_run_status |-> status, total_rows_processed |-> rows]}

\* _end_run(conn, run_id, status, rows, error, start_time): the UPDATE of the
\* run's row, then the upsert of the job's statistics and the commit.  The
\* parameters of the upsert name job_name, which is read where the tuple is
\* built: a name _end_run cannot read raises NameError there, after the
\* UPDATE and before the commit.
_end_run(conn, run_id, status, rows, error) ==
    LET updated == [conn EXCEPT !.pending.etl_runs[run_id] =
                        [@ EXCEPT !.status = status, !.rows_processed = Some(rows),
                                  !.error_message = error]]
        job_name == updated.pending.etl_runs[run_id].job_name
    IN  IF "job_name" \notin EndRunNames
        THEN [conn |-> updated, raised |-> Some("NameError")]
        ELSE [conn |-> conn_commit([updated EXCEPT !.pending.etl_job_stats =
                                  UpsertJobStats(@, job_name, status, rows)]),
              raised |-> None]

\* What leaves `with track(job_name)` once its body has ended, and the tables
\* after it.  body is None when the body completed and the exception it
\* raised otherwise; KeyboardInterrupt is no Exception.
track_exit(runs, stats, run_id, rows, body) ==
    LET conn == Connect(runs, stats)
        success == _end_run(conn, run_id, "success", rows, None)
        \* the except clause, entered with exception e and connection c
        handler(c, e) ==
            LET failed == _end_run(c, run_id, "failed", rows, Some("traceback"))
            IN  [conn |-> failed.conn,
                 raised |-> IF failed.raised # None THEN failed.raised ELSE Some(e)]
        ended ==
            IF body = None
            THEN IF success.raised = None THEN success
                 ELSE handler(success.conn, Val(success.raised))
            ELSE IF Val(body) = "KeyboardInterrupt"
            THEN [conn |-> conn, raised |-> body]
            ELSE handler(conn, Val(body))
    IN  [tables |-> conn_close(ended.conn), raised |-> ended.raised]

\* the bounded inputs of the tracker
Trackers  == {"p1", "p2"}
Jobs      == {"labels", "signals"}
RowCounts == {0, 5}
BodyEnds  == {None, Some("ValueError"), Some("KeyboardInterrupt")}

----------------------------------------------------------------------------
(* Concurrent calls of set_active_model, src/models/registry.py.  Each call
   is one transaction at READ COMMITTED: an UPDATE locks each row it changes
   until the transaction ends and waits for a row another transaction has
   locked; the rows it wrote replace the committed ones at its commit. *)

\* the rows UPDATE "ML_MODEL_REGISTRY" SET is_active = FALSE changes: all
deactivate_none(registry) == {}
deactivate_targets(registry) == DOMAIN registry
\* the rows UPDATE ... SET is_active = TRUE WHERE model_id = %s changes
activate_targets(registry, model_id) ==
    {i \in DOMAIN registry : registry[i].model_id = model_id}

\* the table after the commit of a transaction that wrote `writes`
CommitWrites(registry, writes) ==
    [i \in DOMAIN registry |->
        IF i \in DOMAIN writes THEN [registry[i] EXCEPT !.is_active = writes[i]]
        ELSE registry[i]]

Idle == [pc |-> "idle", model_id |-> 0, todo |-> {}, writes |-> <<>>]
Sessions == {"s1", "s2"}
\* the model ids a call may name: the registered ones and one that is not
ActivationIds == {1, 2, 3}

----------------------------------------------------------------------------
(* The state machine *)

\* the label tables before any run, `runs` runs of the label job ahead
LabelInit(tables, runs) ==
    /\ ohlcv \in tables
    /\ ML_LABELS = <<>>
    /\ clock = ClockEnd - runs
    /\ call = None
    /\ outcome = "none"
    /\ label_rows = <<>>
    /\ previous = [call |-> None, outcome |-> "none", label_rows |-> <<>>]

\* the trainer before any call of train
TrainInit(configs, views) ==
    /\ splits \in configs
    /\ mv_ml_feature_matrix \in views
    /\ train_runs = 0
    /\ train_call = None
    /\ artifacts = {}
    /\ ML_MODEL_REGISTRY = <<>>
    /\ ML_BACKTEST_RESULTS = <<>>

\* no concurrent label run has begun
RaceInit ==
    /\ tx = [w \in Writers |->
                [pc |-> "idle", call |-> None, rows |-> <<>>, pos |-> 0, locked |-> {}]]
    /\ commits = <<>>

\* no metric has been called on the frame
EvalInit(frames) ==
    /\ eval_df \in frames
    /\ eval_call = None

\* no job is tracked and the tracker's tables are empty
EtlInit ==
    /\ etl_runs = <<>>
    /\ etl_job_stats = {}
    /\ tracked = [p \in Trackers |-> [pc |-> "idle", job_name |-> "", run_id |-> 0, rows |-> 0]]
    /\ etl_log = <<>>

\* no call of set_active_model is under way
SessionInit ==
    /\ sessions = [s \in Sessions |-> Idle]
    /\ activated = <<>>

Init == LabelInit(InputTables, 1) /\ TrainInit({SPLITS}, {{}}) /\ RaceInit /\ EvalInit({<<>>}) /\ EtlInit /\ SessionInit

\* one call of run(from_date, to_date): fetch, compute, upsert, all in one.
\* The clock is read for created_at and has advanced when the call ends.
Run(from_arg, to_arg) ==
    /\ clock < ClockEnd
    /\ \E from_date \in {run_from(from_arg, DateOf(clock))} :
       \E to_date \in {run_to(to_arg, from_date, DateOf(clock))} :
       \E rows \in {fetch_ohlcv_window(ohlcv, from_date, to_date)} :
       \E res \in {compute_labels(rows, from_date, to_date, clock)} :
           /\ call' = Some([from_date |-> from_date, to_date |-> to_date])
           /\ outcome' = IF res.raised THEN "TypeError" ELSE "returned"
           /\ label_rows' = res.rows
           /\ ML_LABELS' = IF ~res.raised /\ res.rows # <<>>
                           THEN upsert_labels(ML_LABELS, res.rows)
                           ELSE ML_LABELS
    /\ previous' = [call |-> call, outcome |-> outcome, label_rows |-> label_rows]
    /\ clock' = clock + 1
    /\ UNCHANGED ohlcv
    /\ UNCHANGED <<train_vars, race_vars, eval_vars, etl_vars, session_vars>>

Next == \E from_arg \in ArgDates, to_arg \in ArgDates : Run(from_arg, to_arg)

Spec == Init /\ [][Next]_vars

\* the label job run MaxRuns times over two assets
InitRuns == LabelInit(RunTables, MaxRuns) /\ TrainInit({SPLITS}, {{}}) /\ RaceInit /\ EvalInit({<<>>}) /\ EtlInit /\ SessionInit

NextRuns == \E from_arg \in RunArgDates, to_arg \in RunArgDates : Run(from_arg, to_arg)

SpecRuns == InitRuns /\ [][NextRuns]_vars

\* the label job run once over a history longer than its fetch window
InitFetch == LabelInit(FetchTables, 1) /\ TrainInit({SPLITS}, {{}}) /\ RaceInit /\ EvalInit({<<>>}) /\ EtlInit /\ SessionInit

NextFetch == \E from_arg \in FetchArgDates, to_arg \in FetchArgDates : Run(from_arg, to_arg)

SpecFetch == InitFetch /\ [][NextFetch]_vars

\* one call of train(mode): the three loads, the early return on an empty
\* training frame, the fit, the artifact, the registry row, the backtest row
\* and, in news_augmented mode, the activation.  Nothing in train compares
\* the windows of the split with one another.
Train(mode) ==
    /\ train_runs < MaxTrains
    /\ \E split \in {splits[mode]} :
       \E df_train \in {load_feature_matrix(mv_ml_feature_matrix, split.train_from, split.train_to)} :
       \E df_val \in {load_feature_matrix(mv_ml_feature_matrix, split.val_from, split.val_to)} :
       \E df_test \in {load_feature_matrix(mv_ml_feature_matrix, split.test_from, split.test_to)} :
       \E ended \in {TrainOutcome(df_train, df_val, df_test)} :
       \E val_ic_3d \in ValIcs :
       \E reg \in {register_model(ML_MODEL_REGISTRY, ModelName(mode), split, val_ic_3d,
                                  ArtifactPath(mode))} :
           /\ train_call' = Some([ mode    |-> mode,
                                   loaded  |-> [train |-> df_train, val |-> df_val, test |-> df_test],
                                   fitted  |-> (ended = "returned"),
                                   outcome |-> ended ])
           /\ artifacts' = IF ended = "returned"
                           THEN SaveArtifact(artifacts, ArtifactPath(mode), df_train)
                           ELSE artifacts
           /\ ML_MODEL_REGISTRY' =
                  IF ended # "returned" THEN ML_MODEL_REGISTRY
                  ELSE IF mode = "news_augmented"
                       THEN set_active_model(reg.table, reg.model_id)
                       ELSE reg.table
           /\ ML_BACKTEST_RESULTS' =
                  IF ended = "returned"
                  THEN save_backtest(ML_BACKTEST_RESULTS, reg.model_id,
                                     split.test_from, split.test_to)
                  ELSE ML_BACKTEST_RESULTS
    /\ train_runs' = train_runs + 1
    /\ UNCHANGED <<splits, mv_ml_feature_matrix>>
    /\ UNCHANGED <<label_vars, race_vars, eval_vars, etl_vars, session_vars>>

\* the trainer run MaxTrains times over a view and a window configuration
InitTrain == LabelInit({{}}, 0) /\ TrainInit(SplitConfigs, MatrixTables) /\ RaceInit /\ EvalInit({<<>>}) /\ EtlInit /\ SessionInit

NextTrain == \E mode \in Modes : Train(mode)

SpecTrain == InitTrain /\ [][NextTrain]_vars

\* the trainer run while the price-only model is registered and active, with
\* any validation IC, its artifact on disk
RetrainInit ==
    /\ splits = SPLITS
    /\ mv_ml_feature_matrix \in MatrixTables
    /\ train_runs = 0
    /\ train_call = None
    /\ artifacts = SaveArtifact({}, ArtifactPath("price_only"), {})
    /\ \E val_ic_3d \in ValIcs :
          ML_MODEL_REGISTRY =
              set_active_model(register_model(<<>>, ModelName("price_only"),
                                              SPLITS["price_only"], val_ic_3d,
                                              ArtifactPath("price_only")).table, 1)
    /\ ML_BACKTEST_RESULTS = <<>>

InitRetrain == LabelInit({{}}, 0) /\ RetrainInit /\ RaceInit /\ EvalInit({<<>>}) /\ EtlInit /\ SessionInit

SpecRetrain == InitRetrain /\ [][NextTrain]_vars

\* Label runs that execute at the same time, each on its own connection.
\* upsert_labels sends one INSERT ... ON CONFLICT per row inside a single
\* transaction and commits at the end.  A row written by a transaction in
\* progress is locked: another transaction that writes the same
\* (slug, timestamp) waits until the first has ended, and neither sees the
\* other's rows before the commit.

\* the run of writer w up to the return of compute_labels
Begin(w, from_arg, to_arg) ==
    /\ tx[w].pc = "idle"
    /\ clock < ClockEnd
    /\ \E from_date \in {run_from(from_arg, DateOf(clock))} :
       \E to_date \in {run_to(to_arg, from_date, DateOf(clock))} :
       \E rows \in {fetch_ohlcv_window(ohlcv, from_date, to_date)} :
       \E res \in {compute_labels(rows, from_date, to_date, clock)} :
           tx' = [tx EXCEPT ![w] =
                    [ pc     |-> IF res.raised THEN "TypeError"
                                 ELSE IF res.rows = <<>> THEN "done" ELSE "upserting",
                      call   |-> Some([from_date |-> from_date, to_date |-> to_date]),
                      rows   |-> res.rows,
                      pos    |-> 1,
                      locked |-> {} ]]
    /\ clock' = clock + 1
    /\ UNCHANGED <<ohlcv, ML_LABELS, call, outcome, label_rows, previous, commits>>
    /\ UNCHANGED <<train_vars, eval_vars, etl_vars, session_vars>>

\* writer w executes the INSERT ... ON CONFLICT of its next row, once no
\* other transaction in progress holds that row
UpsertRow(w) ==
    /\ tx[w].pc = "upserting"
    /\ tx[w].pos <= Len(tx[w].rows)
    /\ \E r \in {tx[w].rows[tx[w].pos]} :
          /\ \A v \in Writers \ {w} : <<r.slug, r.timestamp>> \notin tx[v].locked
          /\ tx' = [tx EXCEPT ![w].locked = @ \cup {<<r.slug, r.timestamp>>},
                              ![w].pos = @ + 1]
    /\ UNCHANGED <<label_vars, train_vars, commits, eval_vars, etl_vars, session_vars>>

\* conn.commit(): the rows of writer w reach the table, its locks are released
Commit(w) ==
    /\ tx[w].pc = "upserting"
    /\ tx[w].pos > Len(tx[w].rows)
    /\ ML_LABELS' = upsert_labels(ML_LABELS, tx[w].rows)
    /\ tx' = [tx EXCEPT ![w].pc = "done", ![w].locked = {}]
    /\ commits' = Append(commits, w)
    /\ UNCHANGED <<ohlcv, clock, call, outcome, label_rows, previous>>
    /\ UNCHANGED <<train_vars, eval_vars, etl_vars, session_vars>>

InitRace == LabelInit(RaceTables, Cardinality(Writers)) /\ TrainInit({SPLITS}, {{}}) /\ RaceInit /\ EvalInit({<<>>}) /\ EtlInit /\ SessionInit

NextRace ==
    \E w \in Writers :
        \/ \E from_arg \in RunArgDates, to_arg \in RunArgDates : Begin(w, from_arg, to_arg)
        \/ UpsertRow(w)
        \/ Commit(w)

SpecRace == InitRace /\ [][NextRace]_vars

\* one label run over a table that holds two bars of one asset on one date
InitDoubleBar == LabelInit(DoubleBarTables, 1) /\ TrainInit({SPLITS}, {{}}) /\ RaceInit /\ EvalInit({<<>>}) /\ EtlInit /\ SessionInit

SpecDoubleBar == InitDoubleBar /\ [][Next]_vars

\* The metrics are pure functions of the frame: each action is one call of
\* one of them on eval_df, its arguments and result kept in eval_call.  A
\* behaviour is one call.

\* information_coefficient on the rows of one date
InformationCoefficient(d, col) ==
    /\ eval_call = None
    /\ eval_call' =
        LET rows == OnDate(eval_df, d)
        IN  Some([fn |-> "information_coefficient", args |-> [date |-> d, col |-> col],
                  result |-> information_coefficient(SignalOf(rows), Column(rows, col))])
    /\ UNCHANGED <<eval_df, label_vars, train_vars, race_vars, etl_vars, session_vars>>

RollingIC(col, window_days) ==
    /\ eval_call = None
    /\ eval_call' =
        Some([fn |-> "rolling_ic", args |-> [col |-> col, window_days |-> window_days],
              result |-> rolling_ic(SignalOf(eval_df), Column(eval_df, col),
                                    DatesOf(eval_df), window_days)])
    /\ UNCHANGED <<eval_df, label_vars, train_vars, race_vars, etl_vars, session_vars>>

\* hold_days is left at its default
PortfolioSimulation(col, top_n) ==
    /\ eval_call = None
    /\ eval_call' =
        Some([fn |-> "portfolio_simulation", args |-> [col |-> col, top_n |-> top_n],
              result |-> portfolio_simulation(SignalOf(eval_df), Column(eval_df, col),
                                              DatesOf(eval_df), top_n, 3)])
    /\ UNCHANGED <<eval_df, label_vars, train_vars, race_vars, etl_vars, session_vars>>

ComputeDailyIC(col) ==
    /\ eval_call = None
    /\ eval_call' =
        Some([fn |-> "compute_daily_ic", args |-> [col |-> col],
              result |-> compute_daily_ic(eval_df, "signal_score", col)])
    /\ UNCHANGED <<eval_df, label_vars, train_vars, race_vars, etl_vars, session_vars>>

LongOnlyPortfolio(top_n, col) ==
    /\ eval_call = None
    /\ eval_call' =
        Some([fn |-> "long_only_portfolio", args |-> [col |-> col, top_n |-> top_n],
              result |-> long_only_portfolio(eval_df, top_n, col)])
    /\ UNCHANGED <<eval_df, label_vars, train_vars, race_vars, etl_vars, session_vars>>

\* sharpe and max_drawdown of the portfolio's returns, as run calls them
Sharpe(top_n, col) ==
    /\ eval_call = None
    /\ eval_call' =
        LET portfolio_rets == long_only_portfolio(eval_df, top_n, col)
        IN  Some([fn |-> "sharpe", args |-> [returns |-> portfolio_rets],
                  result |-> sharpe(portfolio_rets)])
    /\ UNCHANGED <<eval_df, label_vars, train_vars, race_vars, etl_vars, session_vars>>

MaxDrawdown(top_n, col) ==
    /\ eval_call = None
    /\ eval_call' =
        LET portfolio_rets == long_only_portfolio(eval_df, top_n, col)
        IN  Some([fn |-> "max_drawdown", args |-> [returns |-> portfolio_rets],
                  result |-> max_drawdown(portfolio_rets)])
    /\ UNCHANGED <<eval_df, label_vars, train_vars, race_vars, etl_vars, session_vars>>

HitRate(top_n, col) ==
    /\ eval_call = None
    /\ eval_call' =
        Some([fn |-> "hit_rate", args |-> [col |-> col, top_n |-> top_n],
              result |-> hit_rate(eval_df, top_n, col)])
    /\ UNCHANGED <<eval_df, label_vars, train_vars, race_vars, etl_vars, session_vars>>

InitEval == LabelInit({{}}, 0) /\ TrainInit({SPLITS}, {{}}) /\ RaceInit /\ EvalInit(EvalFrames) /\ EtlInit /\ SessionInit

NextEval ==
    \E col \in ReturnCols :
        \/ \E d \in Range(DatesOf(eval_df)) : InformationCoefficient(d, col)
        \/ \E window_days \in WindowDays(eval_df) : RollingIC(col, window_days)
        \/ ComputeDailyIC(col)
        \/ \E top_n \in TopNs :
            \/ PortfolioSimulation(col, top_n)
            \/ LongOnlyPortfolio(top_n, col)
            \/ Sharpe(top_n, col)
            \/ MaxDrawdown(top_n, col)
            \/ HitRate(top_n, col)

SpecEval == InitEval /\ [][NextEval]_vars

\* a trained model is registered and its artifact on disk
BacktestInit ==
    /\ splits = SPLITS
    /\ mv_ml_feature_matrix \in BacktestViews
    /\ train_runs = 0
    /\ train_call = None
    /\ artifacts = SaveArtifact({}, ArtifactPath("price_only"), {})
    /\ ML_MODEL_REGISTRY = register_model(<<>>, ModelName("price_only"),
                               SPLITS["price_only"], Some(Rat(1, 10)),
                               ArtifactPath("price_only")).table
    /\ ML_BACKTEST_RESULTS = <<>>

\* one call of run of backtest.py; an exception or the early return saves
\* nothing
BacktestRun(model_id, top_n, horizon, from_arg, to_arg) ==
    /\ eval_call = None
    /\ \E r \in {backtest_run(ML_MODEL_REGISTRY, artifacts, mv_ml_feature_matrix,
                              ML_LABELS, model_id, top_n, horizon, from_arg, to_arg)} :
          /\ eval_call' = Some([fn |-> "run",
                                args |-> [model_id |-> model_id, top_n |-> top_n,
                                          horizon |-> horizon,
                                          from_date |-> from_arg, to_date |-> to_arg],
                                result |-> r.outcome])
          /\ eval_df' = r.df
          /\ ML_BACKTEST_RESULTS' = ML_BACKTEST_RESULTS \o r.saved
    /\ UNCHANGED <<splits, mv_ml_feature_matrix, train_runs, train_call, artifacts,
                   ML_MODEL_REGISTRY>>
    /\ UNCHANGED <<label_vars, race_vars, etl_vars, session_vars>>

InitBacktest == LabelInit({{}}, 0) /\ BacktestInit /\ RaceInit /\ EvalInit({<<>>}) /\ EtlInit /\ SessionInit

NextBacktest ==
    \E model_id \in ModelIds, top_n \in TopNs, horizon \in Horizons,
       from_arg \in BacktestDates, to_arg \in BacktestDates :
        BacktestRun(model_id, top_n, horizon, from_arg, to_arg)

SpecBacktest == InitBacktest /\ [][NextBacktest]_vars

----------------------------------------------------------------------------
(* Tracked jobs: each process wraps one job after another in
   `with track(job_name)` *)

\* entering the with statement: get_db_conn, _start_run, the tracker object
TrackEnter(p, job_name) ==
    /\ tracked[p].pc = "idle"
    /\ Len(etl_runs) < MaxTracked
    /\ \E started \in {_start_run(Connect(etl_runs, etl_job_stats), job_name)} :
          /\ etl_runs' = conn_close(started.conn).etl_runs
          /\ tracked' = [tracked EXCEPT ![p] = [pc |-> "body", job_name |-> job_name,
                                                run_id |-> started.run_id, rows |-> 0]]
    /\ UNCHANGED <<etl_job_stats, etl_log>>
    /\ UNCHANGED <<label_vars, train_vars, race_vars, eval_vars, session_vars>>

\* the body's t.rows = rows
SetRows(p, rows) ==
    /\ tracked[p].pc = "body"
    /\ tracked[p].rows = 0
    /\ rows # 0
    /\ tracked' = [tracked EXCEPT ![p].rows = rows]
    /\ UNCHANGED <<etl_runs, etl_job_stats, etl_log>>
    /\ UNCHANGED <<label_vars, train_vars, race_vars, eval_vars, session_vars>>

\* the body ends, by completing or by raising, and track runs to its end
TrackExit(p, body) ==
    /\ tracked[p].pc = "body"
    /\ \E ended \in {track_exit(etl_runs, etl_job_stats, tracked[p].run_id,
                                tracked[p].rows, body)} :
          /\ etl_runs' = ended.tables.etl_runs
          /\ etl_job_stats' = ended.tables.etl_job_stats
          /\ etl_log' = Append(etl_log, [run_id |-> tracked[p].run_id,
                                         job_name |-> tracked[p].job_name,
                                         rows |-> tracked[p].rows,
                                         body |-> body, raised |-> ended.raised])
    /\ tracked' = [tracked EXCEPT ![p] = [pc |-> "idle", job_name |-> "",
                                          run_id |-> 0, rows |-> 0]]
    /\ UNCHANGED <<label_vars, train_vars, race_vars, eval_vars, session_vars>>

InitTrack ==
    LabelInit({{}}, 0) /\ TrainInit({SPLITS}, {{}}) /\ RaceInit /\ EvalInit({<<>>}) /\ EtlInit /\ SessionInit

NextTrack ==
    \E p \in Trackers :
        \/ \E job_name \in Jobs : TrackEnter(p, job_name)
        \/ \E rows \in RowCounts : SetRows(p, rows)
        \/ \E body \in BodyEnds : TrackExit(p, body)

SpecTrack == InitTrack /\ [][NextTrack]_vars

----------------------------------------------------------------------------
(* Concurrent calls of set_active_model *)

LockedBy(s) == DOMAIN sessions[s].writes
LockedByOther(s, i) == \E t \in Sessions \ {s} : i \in LockedBy(t)
InProgress == {s \in Sessions : sessions[s].pc # "idle"}

\* get_db_conn and the start of the first UPDATE, which sees every row
ActivateBegin(s, model_id) ==
    /\ sessions[s].pc = "idle"
    /\ Len(activated) + Cardinality(InProgress) < MaxActivations
    /\ sessions' = [sessions EXCEPT ![s] =
          [pc |-> "deactivate", model_id |-> model_id,
           todo |-> deactivate_targets(ML_MODEL_REGISTRY), writes |-> <<>>]]
    /\ UNCHANGED <<ML_MODEL_REGISTRY, activated>>
    /\ UNCHANGED <<splits, mv_ml_feature_matrix, train_runs, train_call, artifacts,
                   ML_BACKTEST_RESULTS>>
    /\ UNCHANGED <<label_vars, race_vars, eval_vars, etl_vars>>

\* the first UPDATE changes one more row, in whatever order its scan meets
\* them; it waits while another transaction holds the row
DeactivateRow(s, i) ==
    /\ sessions[s].pc = "deactivate"
    /\ i \in sessions[s].todo
    /\ ~LockedByOther(s, i)
    /\ sessions' = [sessions EXCEPT ![s].todo = @ \ {i},
                                    ![s].writes = (i :> FALSE) @@ @]
    /\ UNCHANGED <<ML_MODEL_REGISTRY, activated>>
    /\ UNCHANGED <<splits, mv_ml_feature_matrix, train_runs, train_call, artifacts,
                   ML_BACKTEST_RESULTS>>
    /\ UNCHANGED <<label_vars, race_vars, eval_vars, etl_vars>>

\* the second UPDATE, once the first has changed all its rows
ActivateRows(s) ==
    /\ sessions[s].pc = "deactivate"
    /\ sessions[s].todo = {}
    /\ \E targets \in {activate_targets(ML_MODEL_REGISTRY, sessions[s].model_id)} :
          /\ \A i \in targets : ~LockedByOther(s, i)
          /\ sessions' = [sessions EXCEPT ![s].pc = "commit",
                             ![s].writes = [i \in targets |-> TRUE] @@ @]
    /\ UNCHANGED <<ML_MODEL_REGISTRY, activated>>
    /\ UNCHANGED <<splits, mv_ml_feature_matrix, train_runs, train_call, artifacts,
                   ML_BACKTEST_RESULTS>>
    /\ UNCHANGED <<label_vars, race_vars, eval_vars, etl_vars>>

\* conn.commit() and conn.close()
CommitActivation(s) ==
    /\ sessions[s].pc = "commit"
    /\ ML_MODEL_REGISTRY' = CommitWrites(ML_MODEL_REGISTRY, sessions[s].writes)
    /\ activated' = Append(activated, [session |-> s, model_id |-> sessions[s].model_id,
                                       outcome |-> "committed"])
    /\ sessions' = [sessions EXCEPT ![s] = Idle]
    /\ UNCHANGED <<splits, mv_ml_feature_matrix, train_runs, train_call, artifacts,
                   ML_BACKTEST_RESULTS>>
    /\ UNCHANGED <<label_vars, race_vars, eval_vars, etl_vars>>

\* two transactions each wait for a row the other holds: the database ends
\* one of them with an error, and its call raises without a commit
Waiting(s) ==
    /\ sessions[s].pc = "deactivate"
    /\ sessions[s].todo # {}
    /\ \A i \in sessions[s].todo : LockedByOther(s, i)
DeadlockDetected(s) ==
    /\ Waiting(s)
    /\ \A t \in Sessions \ {s} : Waiting(t)
    /\ activated' = Append(activated, [session |-> s, model_id |-> sessions[s].model_id,
                                       outcome |-> "DeadlockDetected"])
    /\ sessions' = [sessions EXCEPT ![s] = Idle]
    /\ UNCHANGED ML_MODEL_REGISTRY
    /\ UNCHANGED <<splits, mv_ml_feature_matrix, train_runs, train_call, artifacts,
                   ML_BACKTEST_RESULTS>>
    /\ UNCHANGED <<label_vars, race_vars, eval_vars, etl_vars>>

\* both modes have been trained and registered; none or one model is active
ActivateInit ==
    /\ splits = SPLITS
    /\ mv_ml_feature_matrix = {}
    /\ train_runs = 0
    /\ train_call = None
    /\ artifacts = {}
    /\ ML_BACKTEST_RESULTS = <<>>
    /\ \E registered \in
          {register_model(register_model(<<>>, ModelName("price_only"),
                                         SPLITS["price_only"], Some(Rat(1, 10)),
                                         ArtifactPath("price_only")).table,
                          ModelName("news_augmented"), SPLITS["news_augmented"],
                          Some(Rat(2, 10)), ArtifactPath("news_augmented")).table} :
          ML_MODEL_REGISTRY \in {registered, set_active_model(registered, 1)}

InitActivate ==
    LabelInit({{}}, 0) /\ ActivateInit /\ RaceInit /\ EvalInit({<<>>}) /\ EtlInit /\ SessionInit

NextActivate ==
    \E s \in Sessions :
        \/ \E model_id \in ActivationIds : ActivateBegin(s, model_id)
        \/ \E i \in DOMAIN ML_MODEL_REGISTRY : DeactivateRow(s, i)
        \/ ActivateRows(s)
        \/ CommitActivation(s)
        \/ DeadlockDetected(s)

SpecActivate == InitActivate /\ [][NextActivate]_vars

----------------------------------------------------------------------------
(* The daily incremental job: labels.run with no arguments once a day, while
   the price bars of one asset arrive, each on its day or on the day after *)

Today == DateOf(clock)
\* the last day on which a run fits before the clock's end
LastDay == DateOf(ClockEnd - 1)
HasBar(slug, d) == \E b \in ohlcv : b.slug = slug /\ DateOf(b.timestamp) = d

DailyInit ==
    /\ ohlcv = {}
    /\ ML_LABELS = <<>>
    /\ clock = DayStart(0)
    /\ call = None
    /\ outcome = "none"
    /\ label_rows = <<>>
    /\ previous = [call |-> None, outcome |-> "none", label_rows |-> <<>>]

\* the bar of day d is written to "1K_coins_ohlcv"
BarArrives(slug, d, c) ==
    /\ d \in {Today - 1, Today}
    /\ d >= 0
    /\ ~HasBar(slug, d)
    /\ ohlcv' = ohlcv \cup {Bar(slug, d, Some(c))}
    /\ UNCHANGED <<ML_LABELS, clock, call, outcome, label_rows, previous>>
    /\ UNCHANGED <<train_vars, race_vars, eval_vars, etl_vars, session_vars>>

\* the day's run, python labels.py with no dates
DailyRun ==
    /\ clock = DayStart(Today)
    /\ Run(None, None)

\* the day ends, its run done and yesterday's bar in the table
Midnight ==
    /\ clock = DayStart(Today) + 1
    /\ Today < LastDay
    /\ Today >= 1 => HasBar("a", Today - 1)
    /\ clock' = DayStart(Today + 1)
    /\ UNCHANGED <<ohlcv, ML_LABELS, call, outcome, label_rows, previous>>
    /\ UNCHANGED <<train_vars, race_vars, eval_vars, etl_vars, session_vars>>

InitDaily ==
    DailyInit /\ TrainInit({SPLITS}, {{}}) /\ RaceInit /\ EvalInit({<<>>}) /\ EtlInit /\ SessionInit

ArrivingBar == \E d \in 0..LastDay : \E c \in ValidCloses : BarArrives("a", d, c)

NextDaily ==
    \/ ArrivingBar
    \/ DailyRun
    \/ Midnight

\* the run is the one step that takes the clock off the start of a day
RunStep ==
    /\ clock = DayStart(Today)
    /\ clock < ClockEnd
    /\ clock' = clock + 1

\* the job is scheduled every day, time passes and the bars do arrive
SpecDaily ==
    /\ InitDaily
    /\ [][NextDaily]_vars
    /\ WF_clock(RunStep)
    /\ WF_vars(Midnight)
    /\ WF_vars(ArrivingBar)

----------------------------------------------------------------------------
(* What the claims are stated with: the price table as the claims read it,
   not as compute_labels computes on it *)

RatAdd(p, q) == Rat(p[1] * q[2] + q[1] * p[2], p[2] * q[2])
RatSub(p, q) == Rat(p[1] * q[2] - q[1] * p[2], p[2] * q[2])
RatMul(p, q) == Rat(p[1] * q[1], p[2] * q[2])

AssetBars(sl) == {b \in ohlcv : b.slug = sl}
BarDates(sl) == {b.timestamp \div TicksPerDay : b \in AssetBars(sl)}
AllSlugs == {b.slug : b \in ohlcv}
AllDates == UNION {BarDates(sl) : sl \in AllSlugs}

\* the close of the asset's bar of day x; None when there is no bar or its
\* close is NULL
CloseOn(sl, x) ==
    IF x \in BarDates(sl)
    THEN (CHOOSE b \in AssetBars(sl) : b.timestamp \div TicksPerDay = x).close
    ELSE None

ValidOn(sl, x) == CloseOn(sl, x) # None /\ CloseOn(sl, x) # Some(0)

Rows == {label_rows[i] : i \in 1..Len(label_rows)}
RowDate(r) == r.timestamp \div TicksPerDay

InWindow(x) == Val(call).from_date <= x /\ x <= Val(call).to_date

FwdField(r, h) ==
    CASE h = 1 -> r.forward_ret_1d [] h = 3 -> r.forward_ret_3d
      [] h = 7 -> r.forward_ret_7d [] h = 14 -> r.forward_ret_14d

LabelField(r, h) ==
    CASE h = 1 -> r.label_1d [] h = 3 -> r.label_3d
      [] h = 7 -> r.label_7d [] h = 14 -> r.label_14d

\* the thresholds 0.03, 0.05, 0.07, 0.10 as the claims give them
ClaimThreshold(h) ==
    CASE h = 1 -> <<3, 100>> [] h = 3 -> <<1, 20>>
      [] h = 7 -> <<7, 100>> [] h = 14 -> <<1, 10>>

\* the days h, h+1, h+2 ahead of d on which the asset has a valid close
ValidAhead(sl, d, h) == {k \in h..(h + 2) : ValidOn(sl, d + k)}

\* (close[d+k] - close[d]) / close[d] for the smallest such k, exactly
ExactReturn(sl, d, h) ==
    LET k == CHOOSE j \in ValidAhead(sl, d, h) : \A i \in ValidAhead(sl, d, h) : j <= i
    IN  Rat(Val(CloseOn(sl, d + k)) - Val(CloseOn(sl, d)), Val(CloseOn(sl, d)))

C6_NullTogether ==
    \A r \in Rows : \A h \in HORIZONS :
        (FwdField(r, h) = None) <=> (LabelField(r, h) = None)

C6_Witness ==
    \E r \in Rows : \E h1, h2 \in HORIZONS :
        /\ FwdField(r, h1) = None /\ LabelField(r, h1) = None
        /\ FwdField(r, h2) # None /\ LabelField(r, h2) # None

\* C5 as claimed, on the emitted row: with r the row's forward return,
\* label = +1 iff r > t, label = -1 iff r < -t, label = 0 otherwise.
C5_Claim ==
    \A r \in Rows : \A h \in HORIZONS :
        FwdField(r, h) # None =>
            LET r8 == Val(FwdField(r, h))
                t8 == round(ClaimThreshold(h), 8)
            IN  LabelField(r, h) =
                    Some(IF r8 > t8 THEN 1 ELSE IF r8 < -t8 THEN -1 ELSE 0)

\* C5 as amended: with r the forward return before it is rounded for the
\* row, label = +1 iff r > t, label = -1 iff r < -t, label = 0 otherwise (so a
\* return exactly equal to +t or -t gets label 0).
C5_LabelOfExactReturn ==
    \A r \in Rows : \A h \in HORIZONS :
        FwdField(r, h) # None =>
            LET x == ExactReturn(r.slug, RowDate(r), h)
                t == ClaimThreshold(h)
            IN  LabelField(r, h) =
                    Some(IF x[1] * t[2] > t[1] * x[2] THEN 1
                         ELSE IF x[1] * t[2] < -t[1] * x[2] THEN -1 ELSE 0)

\* a row one of whose forward returns is exactly its threshold +t and is
\* labelled 0
C5_Witness ==
    \E r \in Rows : \E h \in HORIZONS :
        /\ FwdField(r, h) # None
        /\ ExactReturn(r.slug, RowDate(r), h) = ClaimThreshold(h)
        /\ LabelField(r, h) = Some(0)

\* C7 as claimed: the call emits exactly one row for each (asset, date) in
\* the inclusive window with a valid close, and no row for any other date.
C7_Claim ==
    call # None =>
        \A sl \in AllSlugs : \A x \in AllDates :
            Cardinality({i \in 1..Len(label_rows) :
                            label_rows[i].slug = sl /\ RowDate(label_rows[i]) = x})
                = IF InWindow(x) /\ ValidOn(sl, x) THEN 1 ELSE 0

\* the sample variance of a sequence of rationals: the squared deviations
\* from the mean, summed, over n - 1
RECURSIVE RatSum(_)
RatSum(xs) == IF xs = <<>> THEN <<0, 1>> ELSE RatAdd(Head(xs), RatSum(Tail(xs)))

SampleVariance(xs) ==
    LET n    == Len(xs)
        mean == RatMul(RatSum(xs), <<1, n>>)
        dev2 == [i \in 1..n |-> RatMul(RatSub(xs[i], mean), RatSub(xs[i], mean))]
    IN  RatMul(RatSum(dev2), <<1, n - 1>>)

\* The trailing volatility of (asset, d) over `window` bar dates, read from
\* the bars dated strictly before d and from nothing else.  HasReturn says
\* which bar dates carry a daily return.
BarsBefore(sl, d) == {b \in AssetBars(sl) : b.timestamp \div TicksPerDay < d}

TrailingVolatility(sl, d, window, HasReturn(_, _)) ==
    LET B       == BarsBefore(sl, d)
        dates   == {b.timestamp \div TicksPerDay : b \in B}
        close   == [x \in dates |->
                       (CHOOSE b \in B : b.timestamp \div TicksPerDay = x).close]
        prev    == [x \in dates |->
                       IF \E y \in dates : y < x
                       THEN Some(CHOOSE y \in dates :
                                y < x /\ \A z \in dates : z < x => z <= y)
                       ELSE None]
        lastw   == {x \in dates : Cardinality({y \in dates : y > x}) < window}
        withret == SetToSortedSeq({x \in lastw :
                       prev[x] # None /\ HasReturn(close[Val(prev[x])], close[x])})
        rets    == [i \in 1..Len(withret) |->
                       LET x == withret[i]
                           p == Val(close[Val(prev[x])])
                       IN  Rat(Val(close[x]) - p, p)]
    IN  IF Len(rets) < 3 THEN None ELSE Some(SampleVariance(rets))

\* a daily return as compute_labels records it: the preceding bar's close is
\* valid
RecordedReturn(c_prev, c_curr) == c_prev # None /\ c_prev # Some(0)

\* a daily return as C8 states it: both closes are valid
ValidReturn(c_prev, c_curr) ==
    /\ c_prev # None /\ c_prev # Some(0)
    /\ c_curr # None /\ c_curr # Some(0)

\* C2: volatility_7d (volatility_30d) of the row dated d is the sample
\* standard deviation of the daily returns of the asset's last 7 (30) bar
\* dates strictly before d, a function of the bars dated before d alone, and
\* null when fewer than 3 such returns exist.
C2_TrailingVolatility ==
    \A r \in Rows :
        /\ r.volatility_7d =
              TrailingVolatility(r.slug, RowDate(r), 7, RecordedReturn)
        /\ r.volatility_30d =
              TrailingVolatility(r.slug, RowDate(r), 30, RecordedReturn)

\* a row whose two volatilities are defined, differ from one another (more
\* than 7 bar dates lie before it) and the 7-day one is not zero
C2_Witness ==
    /\ \E r \in Rows :
          /\ r.volatility_7d # None
          /\ r.volatility_30d # None
          /\ r.volatility_7d # r.volatility_30d
          /\ r.volatility_7d # Some(<<0, 1>>)

\* C8 as claimed: a daily return enters a volatility only when its bar's
\* close and the preceding bar's close are both valid.
C8_Claim ==
    \A r \in Rows :
        /\ r.volatility_7d =
              TrailingVolatility(r.slug, RowDate(r), 7, ValidReturn)
        /\ r.volatility_30d =
              TrailingVolatility(r.slug, RowDate(r), 30, ValidReturn)

\* a label row without the time it was computed at
ButCreatedAt(r) == [r EXCEPT !.created_at = 0]

SameWindowTwice == previous.call # None /\ previous.call = call

C10_OneRowPerKey ==
    /\ \A i, j \in 1..Len(ML_LABELS) :
          (/\ ML_LABELS[i].slug = ML_LABELS[j].slug
           /\ RowDate(ML_LABELS[i]) = RowDate(ML_LABELS[j])) => i = j
    /\ \A r \in Rows : \E i \in 1..Len(ML_LABELS) : ML_LABELS[i] = r

\* a run that recomputed a key a run before it had stored, and left another
\* stored row alone
C10_Witness ==
    /\ \E r \in Rows : \E i \in 1..Len(previous.label_rows) :
          SameKey(previous.label_rows[i], r)
    /\ \E i \in 1..Len(ML_LABELS) : ML_LABELS[i] \notin Rows

----------------------------------------------------------------------------
(* The walk-forward windows *)

\* train_from <= train_to < val_from <= val_to < test_from <= test_to
Ordered(split) ==
    /\ DateOrdinal(split.train_from) <= DateOrdinal(split.train_to)
    /\ DateOrdinal(split.train_to) < DateOrdinal(split.val_from)
    /\ DateOrdinal(split.val_from) <= DateOrdinal(split.val_to)
    /\ DateOrdinal(split.val_to) < DateOrdinal(split.test_from)
    /\ DateOrdinal(split.test_from) <= DateOrdinal(split.test_to)

\* train_to >= val_from or val_to >= test_from
Overlapping(split) ==
    \/ DateOrdinal(split.train_to) >= DateOrdinal(split.val_from)
    \/ DateOrdinal(split.val_to) >= DateOrdinal(split.test_from)

TrainCalled == train_call # None
LastTrain == Val(train_call)

\* C3: in both modes of SPLITS the three windows are strictly increasing in
\* time and pairwise disjoint, train_from <= train_to < val_from <= val_to <
\* test_from <= test_to; accordingly a call of train under SPLITS loads
\* three frames no two of which share a row.
C3_SplitsOrdered ==
    /\ DOMAIN SPLITS = Modes
    /\ \A mode \in DOMAIN SPLITS : Ordered(SPLITS[mode])
    /\ (TrainCalled /\ splits = SPLITS) =>
           /\ LastTrain.loaded.train \cap LastTrain.loaded.val = {}
           /\ LastTrain.loaded.val \cap LastTrain.loaded.test = {}
           /\ LastTrain.loaded.train \cap LastTrain.loaded.test = {}

\* train has run to its end under SPLITS, over a view with rows on the last
\* day of the training window, the first day of the validation window and
\* in the test window, and has loaded rows into each of the three frames
C3_Witness ==
    /\ TrainCalled
    /\ splits = SPLITS
    /\ LastTrain.outcome = "returned"
    /\ \E r \in LastTrain.loaded.train :
           r.timestamp = DayEnd(DateOrdinal(SPLITS[LastTrain.mode].train_to))
    /\ \E r \in LastTrain.loaded.val :
           r.timestamp = DayEnd(DateOrdinal(SPLITS[LastTrain.mode].val_from))
    /\ LastTrain.loaded.test # {}

\* C4: a call of train whose configured windows overlap (train_to >=
\* val_from or val_to >= test_from) ends in a configuration error and has
\* done no partial work: it has loaded no rows, fitted no model, saved no
\* artifact and written no registry row and no backtest row.
C4_Claim ==
    (TrainCalled /\ Overlapping(splits[LastTrain.mode])) =>
        /\ LastTrain.outcome = "ConfigurationError"
        /\ LastTrain.loaded = [train |-> {}, val |-> {}, test |-> {}]
        /\ ~LastTrain.fitted
        /\ artifacts = {}
        /\ ML_MODEL_REGISTRY = <<>>
        /\ ML_BACKTEST_RESULTS = <<>>

----------------------------------------------------------------------------
(* Concurrent label runs, invalid closes, bars that are not monotonic *)

\* both writers have run over the same window and both have committed
Raced ==
    /\ Len(commits) = Cardinality(Writers)
    /\ \A w, v \in Writers : tx[w].call = tx[v].call

LastCommitter == commits[Len(commits)]

\* C11 as claimed: after two runs over the same window have raced, the stored
\* row of every key is the same whichever writer committed last, that is,
\* it is the row either writer computed.
C11_Claim ==
    Raced =>
        \A w \in Writers : \A i \in 1..Len(tx[w].rows) :
            \E j \in 1..Len(ML_LABELS) : ML_LABELS[j] = tx[w].rows[i]

\* C11 as amended: the writers computed the same rows but for created_at,
\* and the table holds exactly the rows of the writer that committed last,
\* one per key; so every stored field other than created_at is the same for
\* every interleaving, and created_at is that of the last committer.
C11_LastWriterWins ==
    Raced =>
        /\ \A w, v \in Writers :
              /\ Len(tx[w].rows) = Len(tx[v].rows)
              /\ \A i \in 1..Len(tx[w].rows) :
                    ButCreatedAt(tx[w].rows[i]) = ButCreatedAt(tx[v].rows[i])
        /\ ML_LABELS = tx[LastCommitter].rows

\* two writers raced on rows of both assets, and the one that began first
\* committed last
C11_Witness ==
    /\ Raced
    /\ \A sl \in Slugs : \E i \in 1..Len(ML_LABELS) : ML_LABELS[i].slug = sl
    /\ \E w \in Writers :
          /\ w # LastCommitter
          /\ tx[w].rows[1].created_at > tx[LastCommitter].rows[1].created_at

\* C12 as claimed: a call of compute_labels never raises, whatever closes
\* are NULL or zero, and returns a row for every (asset, date) of the
\* window that has a valid close.
C12_Claim ==
    call # None =>
        /\ outcome = "returned"
        /\ \A sl \in AllSlugs : \A x \in AllDates :
              (InWindow(x) /\ ValidOn(sl, x)) =>
                  \E r \in Rows : r.slug = sl /\ RowDate(r) = x

\* the bars as the call presented them to compute_labels
Presented ==
    fetch_ohlcv_window(ohlcv, Val(call).from_date, Val(call).to_date)

\* two consecutive bars of one asset whose dates do not strictly increase
NonMonotonic(bars) ==
    \E i \in 1..(Len(bars) - 1) :
        /\ bars[i].slug = bars[i + 1].slug
        /\ DateOf(bars[i + 1].timestamp) <= DateOf(bars[i].timestamp)

\* C13 as claimed: a call whose bars are not strictly increasing by date for
\* an asset fails with a precondition error and returns no rows.
C13_Claim ==
    (call # None /\ NonMonotonic(Presented)) =>
        /\ outcome = "PreconditionError"
        /\ label_rows = <<>>

----------------------------------------------------------------------------
(* The evaluator's metrics *)

\* the last call was of fn
CalledFn(fn) == eval_call # None /\ Val(eval_call).fn = fn
Args == Val(eval_call).args
Result == Val(eval_call).result

\* the valid pairs of a date: its rows with a signal and a return in col
ValidPairs(d, col) ==
    Cardinality({i \in 1..Len(eval_df) :
                    /\ DateOf(eval_df[i].timestamp) = d
                    /\ eval_df[i][col] # None})

\* C14 as claimed: no information coefficient comes from fewer than 10 valid
\* pairs: information_coefficient returns nan for the rows of a date with
\* fewer, and compute_daily_ic has no IC for such a date.
C14_Claim ==
    /\ CalledFn("information_coefficient") =>
          (ValidPairs(Args.date, Args.col) < 10 => Result = None)
    /\ CalledFn("compute_daily_ic") =>
          \A k \in 1..Len(Result) :
              ValidPairs(DateOf(Result[k].index), Args.col) >= 10

\* The windows rolling_ic walks over the frame: for each position k that has
\* window_days dates before it, the rows of those dates.
UniqueDates == SetToSortedSeq(Range(DatesOf(eval_df)))
WindowRows(k, window_days) ==
    SelectSeq(eval_df, LAMBDA r :
        \E j \in (k - window_days)..(k - 1) : DateOf(r.timestamp) = UniqueDates[j])
WindowPositions(window_days) == (window_days + 1)..Len(UniqueDates)

\* the valid pairs of a window and its IC over them
WindowPairs(k, window_days, col) ==
    SelectSeq(WindowRows(k, window_days), LAMBDA r : r[col] # None)
WindowIC(k, window_days, col) ==
    LET pairs == WindowPairs(k, window_days, col)
    IN  information_coefficient(SignalOf(pairs), Column(pairs, col))

\* the ICs of the windows that have at least 10 valid pairs (a window whose
\* returns are all equal has no IC: the rank correlation is undefined)
RECURSIVE QualifiedICs(_, _, _)
QualifiedICs(k, window_days, col) ==
    IF k > Len(UniqueDates) THEN <<>>
    ELSE (IF /\ Len(WindowPairs(k, window_days, col)) >= 10
             /\ WindowIC(k, window_days, col) # None
          THEN <<Val(WindowIC(k, window_days, col))>> ELSE <<>>)
         \o QualifiedICs(k + 1, window_days, col)

RatDiv(p, q) == Rat(p[1] * q[2], p[2] * q[1])
Mean(xs) == RatMul(RatSum(xs), <<1, Len(xs)>>)
\* the population variance: the mean of the squares less the square of the mean
PopulationVariance(xs) ==
    RatSub(Mean([i \in 1..Len(xs) |-> RatMul(xs[i], xs[i])]), RatMul(Mean(xs), Mean(xs)))
\* x / sqrt(v) as the number of the same sign whose square is x^2 / v
SignedSquareRatio(x, v) ==
    LET q == RatDiv(RatMul(x, x), v) IN IF x[1] < 0 THEN RatNeg(q) ELSE q

\* C15: rolling_ic reports the mean, the population standard deviation and
\* the information ratio of exactly the ICs of the windows with at least 10
\* valid pairs; a window with fewer adds no entry; the ratio is mean / std,
\* undefined when the std is zero; all three are undefined when no window
\* qualified.
C15_RollingIC ==
    CalledFn("rolling_ic") =>
        LET ics == QualifiedICs(Args.window_days + 1, Args.window_days, Args.col)
        IN  IF ics = <<>>
            THEN Result = [ic_mean |-> None, ic_std |-> None, icir |-> None]
            ELSE /\ Result.ic_mean = Some(Rounded(Mean(ics), 6))
                 /\ Result.ic_std = Some(PopulationVariance(ics))
                 /\ Result.icir =
                       IF PopulationVariance(ics)[1] = 0 THEN None
                       ELSE Some(SignedSquareRatio(Mean(ics), PopulationVariance(ics)))

\* C15 happens: one window qualified and another, with fewer than 10 valid
\* pairs, was skipped
C15_Witness ==
    /\ CalledFn("rolling_ic")
    /\ QualifiedICs(Args.window_days + 1, Args.window_days, Args.col) # <<>>
    /\ \E k \in WindowPositions(Args.window_days) :
          Len(WindowPairs(k, Args.window_days, Args.col)) < 10

\* ... and two windows qualified with different ICs, so the ratio is defined
C15_RatioDefined ==
    /\ CalledFn("rolling_ic")
    /\ Len(QualifiedICs(Args.window_days + 1, Args.window_days, Args.col)) >= 2
    /\ Result.icir # None

\* the dates of the frame, ascending, and the rows of a date with a return
FrameDates == SetToSortedSeq(Range(DatesOf(eval_df)))
ValidRows(d, col) == SelectSeq(OnDate(eval_df, d), LAMBDA r : r[col] # None)

\* the dates that have at least top_n assets with a non-null return
HeldDates(col, top_n) == SelectSeq(FrameDates, LAMBDA d : ValidPairs(d, col) >= top_n)

\* C16 as claimed: a date with fewer than top_n non-null forward returns is
\* not in the daily-return series, neither of long_only_portfolio nor of
\* portfolio_simulation (whose total_trades is top_n times the held days,
\* or 0 with its metrics undefined).
C16_Claim ==
    /\ CalledFn("long_only_portfolio") =>
          \A k \in 1..Len(Result) :
              ValidPairs(DateOf(Result[k].index), Args.col) >= Args.top_n
    /\ CalledFn("portfolio_simulation") =>
          \/ Result.total_trades = 0
          \/ Result.total_trades = Len(HeldDates(Args.col, Args.top_n)) * Args.top_n

\* the n rows scored highest, and the n scored lowest, among rows
TopCohort(rows, n) ==
    SelectSeq(rows, LAMBDA r :
        Cardinality({i \in 1..Len(rows) : RatGT(rows[i].signal_score, r.signal_score)}) < n)
BottomCohort(rows, n) ==
    SelectSeq(rows, LAMBDA r :
        Cardinality({i \in 1..Len(rows) : RatLT(rows[i].signal_score, r.signal_score)}) < n)
MeanReturn(rows, col) == Mean([i \in 1..Len(rows) |-> Val(rows[i][col])])

\* the portfolio's daily-return series: for each held date the mean return of
\* the top_n best-scored assets that have one
DailyReturns(col, top_n) ==
    LET held == HeldDates(col, top_n)
    IN  [k \in 1..Len(held) |-> MeanReturn(TopCohort(ValidRows(held[k], col), top_n), col)] \o <<>>

\* the observations of a series of [index, value]
Observations(series) ==
    LET kept == SelectSeq(series, LAMBDA e : e.value # None)
    IN  [k \in 1..Len(kept) |-> Val(kept[k].value)] \o <<>>

\* a Sharpe ratio is undefined exactly on fewer than 2 observations or zero std
SharpeUndefined(obs) == Len(obs) < 2 \/ Cardinality(Range(obs)) = 1
\* mean / std * sqrt(252) by its signed square, std of the sample or of the
\* population
SharpeOf(obs, variance) == RatMul(SignedSquareRatio(Mean(obs), variance), <<252, 1>>)

\* C17 as claimed: the Sharpe ratio is undefined exactly when the daily-return
\* series has fewer than 2 observations or zero standard deviation, and is
\* mean / std * sqrt(252) otherwise, in backtest.sharpe and in
\* portfolio_simulation.
C17_Claim ==
    /\ CalledFn("sharpe") =>
          LET obs == Observations(Args.returns)
          IN  IF SharpeUndefined(obs) THEN Result = None
              ELSE Result = Some(SharpeOf(obs, SampleVariance(obs)))
    /\ CalledFn("portfolio_simulation") =>
          LET obs == DailyReturns(Args.col, Args.top_n)
          IN  IF SharpeUndefined(obs) THEN Result.sharpe = None
              ELSE Result.sharpe = Some(SharpeOf(obs, PopulationVariance(obs)))

\* the days hit_rate is to count: those with at least 2 x top_n valid
\* observations; the day is won when the top cohort's mean return is
\* strictly greater than the bottom cohort's
CountedDays(col, top_n) ==
    SelectSeq(FrameDates, LAMBDA d : ValidPairs(d, col) >= 2 * top_n)
TopWins(d, col, top_n) ==
    RatGT(MeanReturn(TopCohort(ValidRows(d, col), top_n), col),
          MeanReturn(BottomCohort(ValidRows(d, col), top_n), col))
WonDays(col, top_n) ==
    SelectSeq(CountedDays(col, top_n), LAMBDA d : TopWins(d, col, top_n))

\* C19 as claimed: hit_rate is the fraction (to 4 decimals) of the days with
\* at least 2 x top_n valid observations on which the top_n best-scored
\* assets strictly outperform the top_n worst-scored, undefined when no day
\* is counted.
C19_Claim ==
    CalledFn("hit_rate") =>
        LET counted == CountedDays(Args.col, Args.top_n)
            won     == WonDays(Args.col, Args.top_n)
        IN  IF counted = <<>> THEN Result = None
            ELSE Result = Some(Rounded(Rat(Len(won), Len(counted)), 4))

\* the series of max_drawdown, nulls filled with 0, or the daily returns of
\* portfolio_simulation: all greater than -1
AboveMinusOne(obs) == \A k \in 1..Len(obs) : RatGT(obs[k], <<-1, 1>>)
InDrawdownRange(x) == ~RatGT(x, <<0, 1>>) /\ ~RatLT(x, <<-1, 1>>)

\* C20: for a daily-return series whose returns are all greater than -1, the
\* maximum drawdown that max_drawdown and portfolio_simulation report is at
\* most 0 and at least -1.
C20_DrawdownRange ==
    /\ (CalledFn("max_drawdown") /\ AboveMinusOne(Observations(Args.returns))) =>
          (Result # None /\ InDrawdownRange(Val(Result)))
    /\ (CalledFn("portfolio_simulation")
            /\ AboveMinusOne(DailyReturns(Args.col, Args.top_n))) =>
          (Result.max_drawdown # None => InDrawdownRange(Val(Result.max_drawdown)))

\* C20 happens: max_drawdown reports a loss from the peak
C20_Witness ==
    /\ CalledFn("max_drawdown")
    /\ AboveMinusOne(Observations(Args.returns))
    /\ Result # None /\ RatLT(Val(Result), <<0, 1>>)

\* ... and so does portfolio_simulation
C20_SimulationWitness ==
    /\ CalledFn("portfolio_simulation")
    /\ Result.max_drawdown # None /\ RatLT(Val(Result.max_drawdown), <<0, 1>>)

\* the fraction (to 4 decimals) of the held days on which the top-N
\* portfolio's daily return is strictly positive, undefined without a held day
PositiveDayFraction(col, top_n) ==
    LET obs == DailyReturns(col, top_n)
        positive == SelectSeq(obs, LAMBDA x : x[1] > 0)
    IN  IF obs = <<>> THEN None ELSE Some(Rounded(Rat(Len(positive), Len(obs)), 4))

HorizonCol(horizon) == IF horizon = 1 THEN "forward_ret_1d" ELSE "forward_ret_3d"

\* the record the last call of run saved
Saved == ML_BACKTEST_RESULTS[Len(ML_BACKTEST_RESULTS)]

\* C18 as claimed: the win_rate of a report is the fraction of held days with
\* a strictly positive top-N portfolio return, in the dict of
\* portfolio_simulation that full_eval returns (when it reports one) and in
\* the record run of backtest.py saves.
C18_Claim ==
    /\ (CalledFn("portfolio_simulation") /\ Result.win_rate # None) =>
          Result.win_rate = PositiveDayFraction(Args.col, Args.top_n)
    /\ (CalledFn("run") /\ Result = "saved") =>
          Saved.win_rate = PositiveDayFraction(HorizonCol(Args.horizon), Args.top_n)

----------------------------------------------------------------------------
(* Rounding in the evaluator *)

\* the rank correlation of the valid pairs of some rows, as spearmanr gives it
UnroundedIC(rows, col) ==
    LET pairs == SelectSeq(rows, LAMBDA r : r[col] # None)
    IN  spearmanr(np_array([i \in 1..Len(pairs) |-> pairs[i].signal_score]),
                  np_array([i \in 1..Len(pairs) |-> Val(pairs[i][col])]))

\* the unrounded ICs of the windows of rolling_ic that have an IC
RECURSIVE UnroundedWindowICs(_, _, _)
UnroundedWindowICs(k, window_days, col) ==
    IF k > Len(UniqueDates) THEN <<>>
    ELSE (IF /\ Len(WindowPairs(k, window_days, col)) >= 10
             /\ UnroundedIC(WindowRows(k, window_days), col) # None
          THEN <<Val(UnroundedIC(WindowRows(k, window_days), col))>> ELSE <<>>)
         \o UnroundedWindowICs(k + 1, window_days, col)

\* the unrounded ICs of the days compute_daily_ic has an IC for
RECURSIVE UnroundedDailyICs(_, _)
UnroundedDailyICs(k, col) ==
    IF k > Len(FrameDates) THEN <<>>
    ELSE (IF /\ Len(ValidRows(FrameDates[k], col)) >= 5
             /\ UnroundedIC(OnDate(eval_df, FrameDates[k]), col) # None
          THEN <<Val(UnroundedIC(OnDate(eval_df, FrameDates[k]), col))>> ELSE <<>>)
         \o UnroundedDailyICs(k + 1, col)

\* C21 as claimed: no rounded value feeds a later computation.  The mean of
\* rolling_ic is the rounding of the mean of the unrounded window ICs, and
\* the ICIR that run saves is the ratio of the unrounded mean of the daily
\* ICs to their unrounded sample standard deviation.
C21_Claim ==
    /\ CalledFn("rolling_ic") =>
          LET ics == UnroundedWindowICs(Args.window_days + 1, Args.window_days, Args.col)
          IN  ics # <<>> => Result.ic_mean = Some(Rounded(Mean(ics), 6))
    /\ (CalledFn("run") /\ Result = "saved") =>
          LET ics == UnroundedDailyICs(1, HorizonCol(Args.horizon))
          IN  (Len(ics) >= 2 /\ SampleVariance(ics)[1] > 0) =>
                 Saved.icir = Some(SignedSquareRatio(Mean(ics), SampleVariance(ics)))

----------------------------------------------------------------------------
(* Exit codes *)

\* C22 as claimed: a label run or a backtest run from the command line whose
\* window yields zero usable rows ends with a nonzero exit code, and one that
\* processes at least one row ends with exit code 0.
C22_Claim ==
    /\ call # None =>
          IF label_rows = <<>> THEN labels_main(outcome) # 0
          ELSE labels_main(outcome) = 0
    /\ CalledFn("run") =>
          IF eval_df = <<>> THEN backtest_main(Result) # 0
          ELSE backtest_main(Result) = 0

----------------------------------------------------------------------------
(* Tracked jobs *)

\* the total_runs of a job in etl_job_stats, 0 when it has no row
TotalRuns(job_name) ==
    IF \E s \in etl_job_stats : s.job_name = job_name
    THEN (CHOOSE s \in etl_job_stats : s.job_name = job_name).total_runs
    ELSE 0
\* the with statements of a job that have ended
EndedRuns(job_name) == {k \in 1..Len(etl_log) : etl_log[k].job_name = job_name}
InBody(run_id) == \E p \in Trackers : tracked[p].pc = "body" /\ tracked[p].run_id = run_id

\* C23 as claimed: a tracked run is 'running' while its body runs; when the
\* body completed its row is committed as 'success' with the tracker's rows
\* and track raised nothing; when the body raised its row is committed as
\* 'failed' and the body's exception left track; no run that has ended is
\* left 'running', and each ended run added one to its job's total_runs.
C23_Claim ==
    /\ \A p \in Trackers :
          tracked[p].pc = "body" => etl_runs[tracked[p].run_id].status = "running"
    /\ \A k \in 1..Len(etl_log) :
          LET e == etl_log[k]
              row == etl_runs[e.run_id]
          IN  IF e.body = None
              THEN /\ row.status = "success"
                   /\ row.rows_processed = Some(e.rows)
                   /\ e.raised = None
              ELSE /\ row.status = "failed"
                   /\ e.raised = e.body
    /\ \A i \in 1..Len(etl_runs) : etl_runs[i].status = "running" => InBody(i)
    /\ \A job_name \in Jobs : TotalRuns(job_name) = Cardinality(EndedRuns(job_name))

----------------------------------------------------------------------------
(* The active model *)

ActiveRows == {i \in DOMAIN ML_MODEL_REGISTRY : ML_MODEL_REGISTRY[i].is_active}
CommittedCalls == SelectSeq(activated, LAMBDA c : c.outcome = "committed")
LastCommitted == CommittedCalls[Len(CommittedCalls)]
Registered(model_id) == \E i \in DOMAIN ML_MODEL_REGISTRY :
                            ML_MODEL_REGISTRY[i].model_id = model_id

\* C24: whatever calls of set_active_model have run, one after another or
\* concurrently, the committed table has at most one row with is_active =
\* TRUE, and when the call that committed last named a registered model,
\* get_active_model returns that model.
C24_OneActive ==
    /\ Cardinality(ActiveRows) <= 1
    /\ (CommittedCalls # <<>> /\ Registered(LastCommitted.model_id)) =>
          /\ get_active_model(ML_MODEL_REGISTRY) # None
          /\ Val(get_active_model(ML_MODEL_REGISTRY)).model_id = LastCommitted.model_id

\* C24 happens: a call has committed and its model is active, while two
\* further calls are under way at once, one waiting for a row the other holds
C24_Witness ==
    /\ CommittedCalls # <<>>
    /\ Registered(LastCommitted.model_id)
    /\ Cardinality(ActiveRows) = 1
    /\ \E s \in Sessions, t \in Sessions :
          /\ s # t
          /\ Waiting(s)
          /\ sessions[t].pc = "commit"
          /\ sessions[t].model_id # LastCommitted.model_id
          /\ Registered(sessions[t].model_id)

----------------------------------------------------------------------------
(* The forward gap between the windows *)

\* The label job reads dates only through their differences, so the days of
\* the price tables can be laid on the calendar anywhere: day 0 is laid on
\* the last day of a training or of a validation window.
Borders == {splits[mode].train_to : mode \in Modes} \cup
           {splits[mode].val_to : mode \in Modes}
CalendarDay(d, border) == DateOrdinal(border) + d
Within(day, from_date, to_date) ==
    DateOrdinal(from_date) <= day /\ day <= DateOrdinal(to_date)

\* the day of the close a row's forward return over h days is computed from
UsedCloseDay(r, h) ==
    RowDate(r) + (CHOOSE j \in ValidAhead(r.slug, RowDate(r), h) :
                      \A i \in ValidAhead(r.slug, RowDate(r), h) : j <= i)

\* C25 as claimed: under the configured splits the label_3d of a row of the
\* training window is computed from a close dated before val_from, and the
\* label_3d of a row of the validation window from a close dated before
\* test_from.
C25_Claim ==
    \A border \in Borders : \A mode \in Modes : \A r \in Rows :
        r.label_3d # None =>
            LET day  == CalendarDay(RowDate(r), border)
                used == CalendarDay(UsedCloseDay(r, 3), border)
            IN  /\ Within(day, splits[mode].train_from, splits[mode].train_to) =>
                      used < DateOrdinal(splits[mode].val_from)
                /\ Within(day, splits[mode].val_from, splits[mode].val_to) =>
                      used < DateOrdinal(splits[mode].test_from)

----------------------------------------------------------------------------
(* The daily incremental job *)

Stored == {ML_LABELS[i] : i \in 1..Len(ML_LABELS)}
StoredRow(slug, d) == {r \in Stored : r.slug = slug /\ RowDate(r) = d}
\* another daily run is still to come
RunToCome == clock <= DayStart(LastDay)

\* the row of (asset, d) is stored without its h-day return although a close
\* that return can be computed from is in the price table
Fillable(slug, d, h) ==
    /\ \E r \in StoredRow(slug, d) : FwdField(r, h) = None
    /\ ValidAhead(slug, d, h) # {}
    /\ RunToCome
Filled(slug, d, h) ==
    \E r \in StoredRow(slug, d) : FwdField(r, h) # None /\ LabelField(r, h) # None

C26_NeverRevisited ==
    [][ \A d \in 0..LastDay : \A h \in HORIZONS :
            (\E r \in StoredRow("a", d) : FwdField(r, h) = None)
                => (\E r \in {ML_LABELS'[i] : i \in 1..Len(ML_LABELS')} :
                       r.slug = "a" /\ RowDate(r) = d /\ FwdField(r, h) = None) ]_vars

----------------------------------------------------------------------------
(* The windows of rolling_ic *)

\* the valid pairs of the run of window_days dates that ends at the latest
\* date of the frame
LatestPairs(window_days, col) ==
    WindowPairs(Len(UniqueDates) + 1, window_days, col)
\* a rank correlation is defined over rows whose scores are not all equal and
\* whose returns are not all equal
Correlated(rows, col) ==
    /\ \E i, j \in 1..Len(rows) : rows[i].signal_score # rows[j].signal_score
    /\ \E i, j \in 1..Len(rows) : rows[i][col] # rows[j][col]

\* the dates of the test window of a mode, and the default of window_days
TestWindowDates(mode) ==
    DateOrdinal(SPLITS[mode].test_to) - DateOrdinal(SPLITS[mode].test_from) + 1
DefaultWindowDays == 20
\* the values i takes in "for i in range(window_days, len(unique_dates))"
LoopRange(window_days, dates) == window_days..(dates - 1)

\* C27 as claimed: rolling_ic evaluates the run of window_days dates that ends
\* at the latest date, so its ic_mean is defined when that run has at least 10
\* valid pairs with a rank correlation; in particular on a frame of exactly
\* window_days dates with at least 10 valid pairs each.
C27_Claim ==
    CalledFn("rolling_ic") =>
        LET pairs == LatestPairs(Args.window_days, Args.col)
        IN  /\ ( /\ Len(UniqueDates) >= Args.window_days
                 /\ Len(pairs) >= 10
                 /\ Correlated(pairs, Args.col) )
               => Result.ic_mean # None
            /\ ( /\ Len(UniqueDates) = Args.window_days
                 /\ \A k \in 1..Len(UniqueDates) :
                       ValidPairs(UniqueDates[k], Args.col) >= 10
                 /\ Correlated(pairs, Args.col) )
               => Result.ic_mean # None

\* ... and, as claimed for full_eval: with the default window of 20 dates the
\* loop of rolling_ic has a pass on the test window of either mode
C27_TestWindow ==
    \A mode \in Modes :
        LoopRange(DefaultWindowDays, TestWindowDates(mode)) # {}


----------------------------------------------------------------------------
(* The fetch window *)

\* what compute_labels derives from the asset's complete price history for
\* the window of the call (the call read the clock one tick ago)
FromHistory ==
    compute_labels(OrderBars(ohlcv), Val(call).from_date, Val(call).to_date,
                   clock - 1).rows
\* the forward returns and the labels of a row
ForwardFields(r) ==
    [h \in HORIZONS |-> <<FwdField(r, h), LabelField(r, h)>>]

\* C28 as claimed: the rows computed from the fetched window have the forward
\* returns, the labels and the 7-day and 30-day volatilities that
\* compute_labels derives from the complete history, missing days or not.
C28_Claim ==
    (call # None /\ outcome = "returned") =>
        /\ Len(label_rows) = Len(FromHistory)
        /\ \A i \in 1..Len(label_rows) :
              /\ ForwardFields(label_rows[i]) = ForwardFields(FromHistory[i])
              /\ label_rows[i].volatility_7d = FromHistory[i].volatility_7d
              /\ label_rows[i].volatility_30d = FromHistory[i].volatility_30d


----------------------------------------------------------------------------
(* The order of the rows *)

\* the frame with its rows i and j exchanged, and with its rows reversed
Exchanged(df, i, j) ==
    [k \in 1..Len(df) |-> IF k = i THEN df[j] ELSE IF k = j THEN df[i] ELSE df[k]]
Reversed(df) == [k \in 1..Len(df) |-> df[Len(df) + 1 - k]]
\* reorderings of the frame: every permutation is a product of exchanges of
\* neighbours
Reordered(df) ==
    {Exchanged(df, i, i + 1) : i \in 1..(Len(df) - 1)} \cup {Reversed(df)}
\* two rows of one date with the same score and different returns
TiedRows(df, col) ==
    \E i, j \in 1..Len(df) :
        /\ df[i].timestamp = df[j].timestamp
        /\ df[i].signal_score = df[j].signal_score
        /\ df[i][col] # df[j][col]

\* C29 as claimed: portfolio_simulation and hit_rate give the same metrics
\* whatever the order of the rows, equal scores on a date included.
C29_Claim ==
    \A df \in Reordered(eval_df) :
        /\ CalledFn("portfolio_simulation") =>
              Result = portfolio_simulation(SignalOf(df), Column(df, Args.col),
                                            DatesOf(df), Args.top_n, 3)
        /\ CalledFn("hit_rate") =>
              Result = hit_rate(df, Args.top_n, Args.col)


----------------------------------------------------------------------------
(* The activation at the end of a training run *)

\* one validation IC improves on another: both are numbers and it is greater
Improves(new_ic, old_ic) ==
    /\ new_ic # None
    /\ old_ic # None
    /\ Less(Val(old_ic), Val(new_ic))
\* the row of the news-augmented model
NewsRow(registry) == registry[RegistryIndex(registry, ModelName("news_augmented"))]

\* C30 as claimed: a training run in news_augmented mode that finds the
\* price-only model active makes its own model the active one only if its
\* validation IC improves on the price-only model's; otherwise the price-only
\* model is still the active one after the run.
C30_Claim ==
    [][ ( /\ train_runs' = train_runs + 1
          /\ Val(train_call').mode = "news_augmented"
          /\ Val(train_call').outcome = "returned"
          /\ get_active_model(ML_MODEL_REGISTRY) # None
          /\ Val(get_active_model(ML_MODEL_REGISTRY)).model_name = ModelName("price_only") )
        => LET before == Val(get_active_model(ML_MODEL_REGISTRY))
               after  == get_active_model(ML_MODEL_REGISTRY')
           IN  \/ Improves(NewsRow(ML_MODEL_REGISTRY').val_ic_3d, before.val_ic_3d)
               \/ (after # None /\ Val(after).model_id = before.model_id) ]_vars

====
